---- MODULE Spec2Model ----
(***************************************************************************)
(* Camera protocol client of retro-ipcam-webadmin: the key=value response  *)
(* parser (src/src/utils/parser.ts), the CameraApiClient                   *)
(* (src/src/utils/apiClient.ts, and its relay-only successor with          *)
(* ptzControl) and the relay (src/proxy-server.mjs).                       *)
(*                                                                         *)
(* Text is modelled by TLA+ strings; a JavaScript value is a tagged record *)
(* [t, v]; an object graph is a function from property paths to nodes.     *)
(***************************************************************************)
EXTENDS Integers, Sequences, FiniteSets, TLC

VARIABLES
    text,       \* the response text handed to parseKeyValueResponse
    parsed,     \* its outcome: [done, threw, value]
    realm,      \* the properties the page's Object.prototype and Array.prototype have gained
    settings,   \* the ConnectionSettings the clients were constructed from
    camera,     \* the camera: where it listens, the credentials it accepts, what it may answer
    clients,    \* the CameraApiClient instances (one direct, one relayed), by fields
    calls,      \* the operations in progress: one record per call slot
    storage,    \* the browser's localStorage: the entries by key
    page,       \* the singleton state of useCamera and the connect calls in progress
    preview,    \* the live preview component: its refs, timers, fetches and blob URLs
    ptz,        \* the PTZ page: its refs, the pointer and the requests it has sent
    overlay     \* the overlay settings component: current and original values, the save

vars ==
    <<text, parsed, realm, settings, camera, clients, calls, storage, page,
      preview, ptz, overlay>>

(***************************************************************************)
(* String primitives of JavaScript used by the code.                       *)
(***************************************************************************)
CharAt(s, i) == SubSeq(s, i, i)

\* String.prototype.indexOf for a one-character needle: 0-based, -1 if absent.
RECURSIVE IndexFrom(_, _, _)
IndexFrom(s, ch, i) ==
    IF i > Len(s) THEN -1
    ELSE IF CharAt(s, i) = ch THEN i - 1
    ELSE IndexFrom(s, ch, i + 1)

indexOf(s, ch) == IndexFrom(s, ch, 1)

\* String.prototype.substring(start, end) with 0-based, end-exclusive indices.
substring(s, start, end) == SubSeq(s, start + 1, end)

startsWith(s, p) == Len(s) >= Len(p) /\ SubSeq(s, 1, Len(p)) = p

endsWith(s, p) == Len(s) >= Len(p) /\ SubSeq(s, Len(s) - Len(p) + 1, Len(s)) = p

\* String.prototype.includes
includes(s, sub) ==
    \E i \in 1..(Len(s) - Len(sub) + 1) : SubSeq(s, i, i + Len(sub) - 1) = sub

\* White space removed by String.prototype.trim (the part that can occur here).
WhiteSpace == {" ", "\t", "\r", "\n"}

RECURSIVE trimStart(_)
trimStart(s) ==
    IF s # "" /\ CharAt(s, 1) \in WhiteSpace THEN trimStart(Tail(s)) ELSE s

RECURSIVE trimEnd(_)
trimEnd(s) ==
    IF s # "" /\ CharAt(s, Len(s)) \in WhiteSpace
    THEN trimEnd(SubSeq(s, 1, Len(s) - 1))
    ELSE s

trim(s) == trimEnd(trimStart(s))

\* String.prototype.split for a one-character separator.
RECURSIVE split(_, _)
split(s, sep) ==
    LET i == indexOf(s, sep)
    IN  IF i = -1 THEN <<s>>
        ELSE <<substring(s, 0, i)>> \o split(substring(s, i + 1, Len(s)), sep)

UpperCase == "ABCDEFGHIJKLMNOPQRSTUVWXYZ"
LowerCase == "abcdefghijklmnopqrstuvwxyz"
Digits == "0123456789"

RECURSIVE toLowerCase(_)
toLowerCase(s) ==
    IF s = "" THEN ""
    ELSE LET c == CharAt(s, 1)
             k == indexOf(UpperCase, c)
         IN  (IF k = -1 THEN c ELSE CharAt(LowerCase, k + 1)) \o toLowerCase(Tail(s))

\* the characters of a string, as a set
CharsOf(s) == {CharAt(s, i) : i \in 1..Len(s)}

DigitChars == CharsOf(Digits)

IsDigit(c) == c \in DigitChars

\* \w of a JavaScript regular expression
WordChars == CharsOf(UpperCase \o LowerCase \o Digits \o "_")

IsWordChar(c) == c \in WordChars

AllDigits(s) == s # "" /\ \A i \in 1..Len(s) : IsDigit(CharAt(s, i))

AllWordChars(s) == s # "" /\ \A i \in 1..Len(s) : IsWordChar(CharAt(s, i))

\* the value of a string of decimal digits
RECURSIVE DigitsValue(_)
DigitsValue(s) ==
    IF s = "" THEN 0
    ELSE 10 * DigitsValue(SubSeq(s, 1, Len(s) - 1)) + indexOf(Digits, CharAt(s, Len(s)))

RECURSIVE NatToString(_)
NatToString(n) ==
    IF n < 10 THEN CharAt(Digits, n + 1)
    ELSE NatToString(n \div 10) \o CharAt(Digits, (n % 10) + 1)

(***************************************************************************)
(* JavaScript values.  A primitive is a node [t, v]; an object or array    *)
(* is a tree: a function from property paths (sequences of property names, *)
(* an array index being the property name of its decimal form) to nodes,   *)
(* the root <<>> being the object itself.                                  *)
(***************************************************************************)
Node(t, v) == [t |-> t, v |-> v]

Undefined == Node("undefined", "")
Null == Node("null", "")
EmptyObject == Node("object", "")
EmptyArray == Node("array", "")
JsBool(b) == Node("boolean", b)
JsStr(s) == Node("string", s)
\* the number m / 10^e, with m not divisible by 10 unless e = 0
JsNum(m, e) == Node("number", <<m, e>>)

IsObjectNode(n) == n.t \in {"object", "array"}

\* ToBoolean
Truthy(n) ==
    CASE n.t \in {"undefined", "null"} -> FALSE
      [] n.t = "boolean" -> n.v
      [] n.t = "number" -> n.v[1] # 0
      [] n.t = "string" -> n.v # ""
      [] OTHER -> TRUE

RECURSIVE Pow10(_)
Pow10(e) == IF e = 0 THEN 1 ELSE 10 * Pow10(e - 1)

RECURSIVE PadZeros(_, _)
PadZeros(s, width) == IF Len(s) >= width THEN s ELSE PadZeros("0" \o s, width)

\* String(value) of a primitive
String(n) ==
    CASE n.t = "boolean" -> (IF n.v THEN "true" ELSE "false")
      [] n.t = "string" -> n.v
      [] n.t = "undefined" -> "undefined"
      [] n.t = "null" -> "null"
      [] n.t = "number" ->
            LET m == n.v[1]
                e == n.v[2]
                a == IF m < 0 THEN -m ELSE m
                sign == IF m < 0 THEN "-" ELSE ""
            IN  IF e = 0 THEN sign \o NatToString(a)
                ELSE sign \o NatToString(a \div Pow10(e)) \o "."
                          \o PadZeros(NatToString(a % Pow10(e)), e)

EmptyTree == (<<>> :> EmptyObject)

IsPrefix(p, q) == Len(p) <= Len(q) /\ SubSeq(q, 1, Len(p)) = p

\* obj[...path] = node, dropping whatever was reachable through the old value
Put(tree, path, node) ==
    [q \in {r \in DOMAIN tree : ~IsPrefix(path, r)} \cup {path} |->
        IF q = path THEN node ELSE tree[q]]

\* the value found at a path: a primitive node, or the object rooted there
ValueAt(tree, path) ==
    IF path \notin DOMAIN tree THEN Undefined
    ELSE IF ~IsObjectNode(tree[path]) THEN tree[path]
    ELSE Node(tree[path].t,
              [q \in {SubSeq(r, Len(path) + 1, Len(r)) :
                         r \in {r \in DOMAIN tree : IsPrefix(path, r)}} |->
                  tree[path \o q]])

(***************************************************************************)
(* parser.ts                                                               *)
(***************************************************************************)
\* /^-?\d+(\.\d+)?$/.test(value)
IsNumberText(value) ==
    LET body == IF startsWith(value, "-") THEN Tail(value) ELSE value
        dot == indexOf(body, ".")
    IN  IF dot = -1 THEN AllDigits(body)
        ELSE /\ AllDigits(substring(body, 0, dot))
             /\ AllDigits(substring(body, dot + 1, Len(body)))

RECURSIVE StripZeros(_)
StripZeros(s) ==
    IF s # "" /\ CharAt(s, Len(s)) = "0" THEN StripZeros(SubSeq(s, 1, Len(s) - 1)) ELSE s

\* parseFloat on a text that IsNumberText accepts
parseFloat(value) ==
    LET neg == startsWith(value, "-")
        body == IF neg THEN Tail(value) ELSE value
        dot == indexOf(body, ".")
        ip == IF dot = -1 THEN body ELSE substring(body, 0, dot)
        fp == IF dot = -1 THEN "" ELSE StripZeros(substring(body, dot + 1, Len(body)))
        m == DigitsValue(ip \o fp)
    IN  JsNum(IF neg THEN -m ELSE m, Len(fp))

parseValue(value) ==
    IF toLowerCase(value) = "true" THEN JsBool(TRUE)
    ELSE IF toLowerCase(value) = "false" THEN JsBool(FALSE)
    ELSE IF IsNumberText(value) THEN parseFloat(value)
    ELSE IF startsWith(value, "\"") /\ endsWith(value, "\"")
         THEN JsStr(SubSeq(value, 2, Len(value) - 1))
    ELSE JsStr(value)

(***************************************************************************)
(* The realm.  Every mapping the parser creates inherits from              *)
(* Object.prototype and every sequence from Array.prototype, which the     *)
(* page shares between all calls.  The realm is the object graph of the    *)
(* properties added to the two; their built-in members (constructor,       *)
(* toString, ...) are left out, no key of the inputs being named like one. *)
(***************************************************************************)
ObjectPrototype == <<"Object.prototype">>
ArrayPrototype == <<"Array.prototype">>

\* the realm of a page that has parsed nothing yet
PristineRealm == (ObjectPrototype :> EmptyObject) @@ (ArrayPrototype :> EmptyObject)

(***************************************************************************)
(* The walk of a key path.  A walk state holds the object graph built so   *)
(* far, the realm, `current` (a path into the graph, into the realm when   *)
(* shared, or a detached primitive when det) and whether a TypeError was   *)
(* thrown.  parser.ts is an ES module, hence strict code: the `in`         *)
(* operator applied to a primitive throws, and so does an assignment to a  *)
(* property of a primitive.                                                *)
(***************************************************************************)
Walk(tree) ==
    [tree |-> tree, realm |-> PristineRealm, cur |-> <<>>, shared |-> FALSE,
     det |-> FALSE, threw |-> FALSE]

\* let current = obj
Restart(st) == [st EXCEPT !.cur = <<>>, !.shared = FALSE, !.det = FALSE]

Throw(st) == [st EXCEPT !.threw = TRUE]

\* a reference to an object or a primitive held in the graph or the realm,
\* or a detached value: null, undefined or another primitive
Ref(shared, path) == [shared |-> shared, path |-> path, prim |-> "none"]

Detached(kind) == [shared |-> FALSE, path |-> <<>>, prim |-> kind]

CurRef(st) == IF st.det THEN Detached("other") ELSE Ref(st.shared, st.cur)

NodeOf(st, ref) == IF ref.shared THEN st.realm[ref.path] ELSE st.tree[ref.path]

CurrentIsPrimitive(st) == st.det \/ ~IsObjectNode(NodeOf(st, CurRef(st)))

\* the object itself and the prototypes behind it, nearest first
ChainOf(st, ref) ==
    IF ref.shared /\ ref.path = ObjectPrototype THEN <<ref>>
    ELSE IF ref.shared /\ ref.path = ArrayPrototype
         THEN <<ref, Ref(TRUE, ObjectPrototype)>>
    ELSE IF NodeOf(st, ref).t = "array"
         THEN <<ref, Ref(TRUE, ArrayPrototype), Ref(TRUE, ObjectPrototype)>>
    ELSE <<ref, Ref(TRUE, ObjectPrototype)>>

Own(st, ref, key) ==
    Append(ref.path, key) \in DOMAIN (IF ref.shared THEN st.realm ELSE st.tree)

\* key in obj, for the object whose chain is given
HasIn(st, chain, key) ==
    \/ key = "__proto__"
    \/ \E k \in DOMAIN chain : Own(st, chain[k], key)

Has(st, ref, key) == HasIn(st, ChainOf(st, ref), key)

\* obj[key], for the object whose chain is given
GetIn(st, chain, key) ==
    IF key = "__proto__"
    THEN IF Len(chain) = 1 THEN Detached("null") ELSE chain[2]
    ELSE IF ~HasIn(st, chain, key) THEN Detached("undefined")
    ELSE Ref(chain[CHOOSE k \in DOMAIN chain :
                       /\ Own(st, chain[k], key)
                       /\ \A m \in 1..(k - 1) : ~Own(st, chain[m], key)].shared,
             Append(chain[CHOOSE k \in DOMAIN chain :
                              /\ Own(st, chain[k], key)
                              /\ \A m \in 1..(k - 1) : ~Own(st, chain[m], key)].path,
                    key))

Get(st, ref, key) == GetIn(st, ChainOf(st, ref), key)

\* obj[key] = node, for the object at ref: an own property of that object
PutAt(st, ref, key, node) ==
    IF ref.shared THEN [st EXCEPT !.realm = Put(st.realm, Append(ref.path, key), node)]
    ELSE [st EXCEPT !.tree = Put(st.tree, Append(ref.path, key), node)]

\* current[key] = node (the __proto__ setter ignores a primitive, and the
\* parser never hands it an object)
Assign(st, key, node) ==
    IF CurrentIsPrimitive(st) THEN Throw(st)
    ELSE IF key = "__proto__" THEN st
    ELSE PutAt(st, CurRef(st), key, node)

\* a walk that binds a fresh value at every segment, merging nothing
EnsureReplacing(st, key, fresh) ==
    IF CurrentIsPrimitive(st) THEN Throw(st) ELSE Assign(st, key, fresh)

\* if (!(key in current)) current[key] = fresh
Ensure(st, key, fresh) ==
    IF CurrentIsPrimitive(st) THEN Throw(st)
    ELSE IF Has(st, CurRef(st), key) THEN st
    ELSE Assign(st, key, fresh)

MoveTo(st, ref) ==
    [st EXCEPT !.cur = ref.path, !.shared = ref.shared, !.det = ref.prim # "none"]

\* current = current[key]
Descend(st, key) == MoveTo(st, Get(st, CurRef(st), key))

RECURSIVE NestedValueLoop(_, _, _, _)
NestedValueLoop(st, parts, i, value) ==
    IF st.threw THEN st
    ELSE IF i < Len(parts) THEN
        IF parts[i] = "" THEN NestedValueLoop(st, parts, i + 1, value)
        ELSE LET s1 == Ensure(st, parts[i], EmptyObject)
             IN  IF s1.threw THEN s1
                 ELSE NestedValueLoop(Descend(s1, parts[i]), parts, i + 1, value)
    ELSE IF parts[i] # "" THEN Assign(st, parts[i], value)
    ELSE st

setNestedValue(st, path, value) ==
    NestedValueLoop(st, split(path, "."), 1, value)

\* part.match(/^(\w+)\[(\d+)\]$/)
ArrayMatch(part) ==
    LET open == indexOf(part, "[")
    IN  /\ open # -1
        /\ endsWith(part, "]")
        /\ AllWordChars(substring(part, 0, open))
        /\ AllDigits(substring(part, open + 1, Len(part) - 1))

ArrayName(part) == substring(part, 0, indexOf(part, "["))

\* parseInt(indexStr, 10), as the property name the index selects
ArrayIndex(part) ==
    NatToString(DigitsValue(substring(part, indexOf(part, "[") + 1, Len(part) - 1)))

\* [index] of the value `node` that the reference a leads to
ElementRefOf(st, a, node, index) ==
    IF IsObjectNode(node) THEN Get(st, a, index)
    ELSE IF node.t = "string" /\ DigitsValue(index) < Len(node.v) THEN Detached("other")
    ELSE Detached("undefined")

\* current[arrayName][index] as a reference, a being current[arrayName]
ElementRef(st, a, index) ==
    IF a.prim # "none" THEN Detached("undefined")
    ELSE ElementRefOf(st, a, NodeOf(st, a), index)

ElementValue(st, a, index, element) ==
    IF element.prim = "other" THEN JsStr(CharAt(NodeOf(st, a).v, DigitsValue(index) + 1))
    ELSE IF element.prim # "none" THEN Undefined
    ELSE NodeOf(st, element)

\* the value of current[arrayName][index]
ElementOf(st, a, index) == ElementValue(st, a, index, ElementRef(st, a, index))

\* current[arrayName][index] = node
AssignElement(st, a, index, node) ==
    IF a.prim # "none" THEN Throw(st)
    ELSE IF ~IsObjectNode(NodeOf(st, a)) THEN Throw(st)
    ELSE PutAt(st, a, index, node)

\* the end of the step: the value is stored, or current moves to the element
ArrayStepEnd(s2, a, index, last, value) ==
    IF s2.threw THEN s2
    ELSE IF last THEN AssignElement(s2, a, index, value)
    ELSE MoveTo(s2, ElementRef(s2, a, index))

\* reading [index] of null throws; a falsy element is replaced by {}
ArrayStepOn(s1, a, index, last, value) ==
    ArrayStepEnd(IF a.prim = "null" THEN Throw(s1)
                 ELSE IF ~Truthy(ElementOf(s1, a, index))
                      THEN AssignElement(s1, a, index, EmptyObject)
                 ELSE s1,
                 a, index, last, value)

\* the step once current[arrayName] exists
ArrayStepAt(s1, part, last, value) ==
    IF s1.threw THEN s1
    ELSE ArrayStepOn(s1, Get(s1, CurRef(s1), ArrayName(part)), ArrayIndex(part),
                     last, value)

\* the step with the name bound to a plain mapping instead of a sequence
ArrayStepAsMapping(st, part, last, value) ==
    ArrayStepAt(Ensure(st, ArrayName(part), EmptyObject), part, last, value)

ArrayStep(st, part, last, value) ==
    ArrayStepAt(Ensure(st, ArrayName(part), EmptyArray), part, last, value)

PropertyStep(st, part, last, value) ==
    IF last THEN Assign(st, part, value)
    ELSE LET s1 == Ensure(st, part, EmptyObject)
         IN  IF s1.threw THEN s1 ELSE Descend(s1, part)

RECURSIVE NestedArrayLoop(_, _, _, _)
NestedArrayLoop(st, parts, i, value) ==
    IF st.threw \/ i > Len(parts) THEN st
    ELSE IF parts[i] = "" THEN NestedArrayLoop(st, parts, i + 1, value)
    ELSE IF ArrayMatch(parts[i])
         THEN NestedArrayLoop(ArrayStep(st, parts[i], i = Len(parts), value),
                              parts, i + 1, value)
    ELSE NestedArrayLoop(PropertyStep(st, parts[i], i = Len(parts), value),
                         parts, i + 1, value)

setNestedArrayValue(st, path, value) ==
    NestedArrayLoop(st, split(path, "."), 1, value)

\* the loop body without the test for an empty key
ParseLineKeepingEmptyKey(st, line) ==
    LET equalsIndex == indexOf(line, "=")
        key == trim(substring(line, 0, equalsIndex))
        value == trim(substring(line, equalsIndex + 1, Len(line)))
        parsedValue == parseValue(value)
    IN  IF trim(line) = "Error" THEN st
        ELSE IF equalsIndex = -1 THEN st
        ELSE IF includes(key, "[") /\ includes(key, "]")
             THEN setNestedArrayValue(Restart(st), key, parsedValue)
        ELSE IF includes(key, ".") THEN setNestedValue(Restart(st), key, parsedValue)
        ELSE Assign(Restart(st), key, parsedValue)

\* the body of the loop over the lines: the state after one line, or a throw
ParseLine(st, line) ==
    LET equalsIndex == indexOf(line, "=")
        key == trim(substring(line, 0, equalsIndex))
        value == trim(substring(line, equalsIndex + 1, Len(line)))
        parsedValue == parseValue(value)
    IN  IF trim(line) = "Error" THEN st
        ELSE IF equalsIndex = -1 THEN st
        ELSE IF key = "" THEN st
        ELSE IF includes(key, "[") /\ includes(key, "]")
             THEN setNestedArrayValue(Restart(st), key, parsedValue)
        ELSE IF includes(key, ".") THEN setNestedValue(Restart(st), key, parsedValue)
        ELSE Assign(Restart(st), key, parsedValue)

RECURSIVE ParseLines(_, _, _)
ParseLines(st, lines, i) ==
    IF i > Len(lines) THEN st
    ELSE IF trim(lines[i]) = "" THEN ParseLines(st, lines, i + 1)
    ELSE LET s1 == ParseLine(st, lines[i])
         IN  IF s1.threw THEN s1 ELSE ParseLines(s1, lines, i + 1)

\* [threw |-> a TypeError escaped, value |-> the mapping returned (built so
\* far), realm |-> the realm the call leaves behind]
Outcome(st) == [threw |-> st.threw, value |-> st.tree, realm |-> st.realm]

\* parseKeyValueResponse(text) called in a page whose realm is as given
parseKeyValueResponseIn(protos, body) ==
    IF body = "" \/ trim(body) = "" \/ trim(body) = "OK"
    THEN [threw |-> FALSE, value |-> EmptyTree, realm |-> protos]
    ELSE Outcome(ParseLines([Walk(EmptyTree) EXCEPT !.realm = protos],
                            split(body, "\n"), 1))

\* the call in a page that has parsed no key named __proto__ before
parseKeyValueResponse(body) == parseKeyValueResponseIn(PristineRealm, body)

RECURSIVE JoinDots(_)
JoinDots(p) ==
    IF Len(p) = 1 THEN p[1] ELSE p[1] \o "." \o JoinDots(Tail(p))

\* the leaves traverse() reaches: primitives below plain objects only
SimpleLeaves(tree) ==
    {p \in DOMAIN tree :
        /\ p # <<>>
        /\ ~IsObjectNode(tree[p])
        /\ \A k \in 0..(Len(p) - 1) : tree[SubSeq(p, 1, k)].t = "object"}

\* the traversal without the Array.isArray test: sequences are walked too
extractSimpleValuesThroughArrays(tree, prefix) ==
    LET name(p) == IF prefix # "" THEN prefix \o "." \o JoinDots(p) ELSE JoinDots(p)
        leaves == {p \in DOMAIN tree : p # <<>> /\ ~IsObjectNode(tree[p])}
    IN  [k \in {name(p) : p \in leaves} |->
            String(tree[CHOOSE p \in leaves : name(p) = k])]

extractSimpleValues(tree, prefix) ==
    LET name(p) == IF prefix # "" THEN prefix \o "." \o JoinDots(p) ELSE JoinDots(p)
    IN  [k \in {name(p) : p \in SimpleLeaves(tree)} |->
            String(tree[CHOOSE p \in SimpleLeaves(tree) : name(p) = k])]

(***************************************************************************)
(* Encodings used on the wire.                                             *)
(***************************************************************************)
\* the printable ASCII characters in code order: 32..95 and 97..126
\* (code 96, the grave accent, cannot be written in a TLA+ string)
AsciiLow == " !\"#$%&'()*+,-./0123456789:;<=>?@ABCDEFGHIJKLMNOPQRSTUVWXYZ[\\]^_"
AsciiHigh == "abcdefghijklmnopqrstuvwxyz{|}~"

CharCodes ==
    [c \in CharsOf(AsciiLow) \cup CharsOf(AsciiHigh) |->
        IF indexOf(AsciiLow, c) # -1 THEN 32 + indexOf(AsciiLow, c)
        ELSE 97 + indexOf(AsciiHigh, c)]

CharCode(c) == CharCodes[c]

FromCharCode(n) ==
    IF n < 96 THEN CharAt(AsciiLow, n - 31) ELSE CharAt(AsciiHigh, n - 96)

Base64Chars == "ABCDEFGHIJKLMNOPQRSTUVWXYZabcdefghijklmnopqrstuvwxyz0123456789+/"

Sextet(n) == CharAt(Base64Chars, n + 1)

\* the value of each character of the base64 alphabet
SextetValues == [c \in CharsOf(Base64Chars) |-> indexOf(Base64Chars, c)]

\* window.btoa
RECURSIVE btoa(_)
btoa(s) ==
    IF s = "" THEN ""
    ELSE LET n == Len(s)
             b1 == CharCode(CharAt(s, 1))
             b2 == IF n >= 2 THEN CharCode(CharAt(s, 2)) ELSE 0
             b3 == IF n >= 3 THEN CharCode(CharAt(s, 3)) ELSE 0
         IN  Sextet(b1 \div 4)
             \o Sextet((b1 % 4) * 16 + (b2 \div 16))
             \o (IF n >= 2 THEN Sextet((b2 % 16) * 4 + (b3 \div 64)) ELSE "=")
             \o (IF n >= 3 THEN Sextet(b3 % 64) ELSE "=")
             \o (IF n > 3 THEN btoa(SubSeq(s, 4, n)) ELSE "")

\* Buffer.from(s, 'base64').toString() on the output of btoa
RECURSIVE Base64Decode(_)
Base64Decode(s) ==
    IF Len(s) < 2 \/ CharAt(s, 1) = "=" \/ CharAt(s, 2) = "=" THEN ""
    ELSE LET n == Len(s)
             v1 == SextetValues[CharAt(s, 1)]
             v2 == SextetValues[CharAt(s, 2)]
             has3 == n >= 3 /\ CharAt(s, 3) # "="
             has4 == has3 /\ n >= 4 /\ CharAt(s, 4) # "="
             v3 == IF has3 THEN SextetValues[CharAt(s, 3)] ELSE 0
             v4 == IF has4 THEN SextetValues[CharAt(s, 4)] ELSE 0
         IN  FromCharCode(v1 * 4 + (v2 \div 16))
             \o (IF has3 THEN FromCharCode((v2 % 16) * 16 + (v3 \div 4)) ELSE "")
             \o (IF has4 THEN FromCharCode((v3 % 4) * 64 + v4) ELSE "")
             \o (IF has4 /\ n > 4 THEN Base64Decode(SubSeq(s, 5, n)) ELSE "")

HexDigits == "0123456789ABCDEF"

\* one character under the application/x-www-form-urlencoded serializer
UrlEncodeChar(c) ==
    IF IsWordChar(c) \/ c \in {"*", "-", "."} THEN c
    ELSE IF c = " " THEN "+"
    ELSE "%" \o CharAt(HexDigits, (CharCode(c) \div 16) + 1)
             \o CharAt(HexDigits, (CharCode(c) % 16) + 1)

RECURSIVE UrlEncode(_)
UrlEncode(s) == IF s = "" THEN "" ELSE UrlEncodeChar(CharAt(s, 1)) \o UrlEncode(Tail(s))

\* new URLSearchParams(params).toString(), params a sequence of <<name, value>>
RECURSIVE URLSearchParams(_)
URLSearchParams(params) ==
    IF params = <<>> THEN ""
    ELSE UrlEncode(params[1][1]) \o "=" \o UrlEncode(params[1][2])
         \o (IF Len(params) > 1 THEN "&" \o URLSearchParams(Tail(params)) ELSE "")

\* { ...a, ...b } on objects held as sequences of <<name, value>> in insertion order
RECURSIVE ObjectSpread(_, _)
ObjectSpread(a, b) ==
    IF b = <<>> THEN a
    ELSE LET k == b[1][1]
             at == {i \in 1..Len(a) : a[i][1] = k}
         IN  ObjectSpread(
                 IF at = {} THEN Append(a, b[1])
                 ELSE [i \in 1..Len(a) |-> IF i \in at THEN b[1] ELSE a[i]],
                 Tail(b))

(***************************************************************************)
(* HTTP: requests, responses, the camera and its Digest authentication.    *)
(***************************************************************************)
\* a fetch that rejects (network unreachable, refused, timed out)
TransportFailure == [kind |-> "fail", status |-> 0, ctype |-> "", body |-> ""]

HttpResponse(status, ctype, body) ==
    [kind |-> "http", status |-> status, ctype |-> ctype, body |-> body]

NoResponse == [kind |-> "none", status |-> 0, ctype |-> "", body |-> ""]

\* Response.ok
ResponseOk(resp) == resp.kind = "http" /\ resp.status >= 200 /\ resp.status <= 299

CameraOrigin(cam) ==
    (IF cam.tls THEN "https" ELSE "http") \o "://" \o cam.host \o ":" \o NatToString(cam.port)

\* DigestClient(username, password).fetch(url): the challenge, the authenticated
\* retry and the camera's answer `beh` to an authenticated request
DigestFetch(username, password, url, cam, beh) ==
    IF ~startsWith(url, CameraOrigin(cam) \o "/") THEN TransportFailure
    ELSE IF beh.kind = "fail" THEN TransportFailure
    ELSE IF username # cam.username \/ password # cam.password
         THEN HttpResponse(401, "text/html", "Unauthorized")
    ELSE beh

(***************************************************************************)
(* The relay: app.use('/proxy') of proxy-server.mjs.                       *)
(***************************************************************************)
RelayBase == "http://localhost:3001"

NonEmpty(x) == x # ""

RECURSIVE JoinWith(_, _)
JoinWith(parts, sep) ==
    IF parts = <<>> THEN ""
    ELSE IF Len(parts) = 1 THEN parts[1]
    ELSE parts[1] \o sep \o JoinWith(Tail(parts), sep)

\* req.url as Express hands it to the middleware mounted at /proxy
ProxyRequestUrl(url) == SubSeq(url, Len(RelayBase \o "/proxy") + 1, Len(url))

\* the credentials decoded from the x-camera-auth header
ProxyCredentials(headers) ==
    IF "x-camera-auth" \in DOMAIN headers /\ headers["x-camera-auth"] # ""
    THEN LET words == split(headers["x-camera-auth"], " ")
             token == IF Len(words) >= 2 THEN words[2] ELSE ""
             pair == split(Base64Decode(token), ":")
             user == pair[1]
             pass == IF Len(pair) >= 2 THEN pair[2] ELSE ""
         IN  [username |-> IF user # "" THEN user ELSE "admin",
              password |-> pass]
    ELSE [username |-> "admin", password |-> ""]

\* the first half of the handler: the target and the credentials of its Digest fetch
ProxyHandle(req) ==
    LET pieces == split(ProxyRequestUrl(req.url), "?")
        pathOnly == pieces[1]
        queryString == IF Len(pieces) >= 2 THEN pieces[2] ELSE ""
        urlParts == SelectSeq(split(pathOnly, "/"), NonEmpty)
        creds == ProxyCredentials(req.headers)
    IN  IF Len(urlParts) < 2
        THEN [seen |-> TRUE, valid |-> FALSE, target |-> "", method |-> req.method,
              username |-> "", password |-> ""]
        ELSE [seen |-> TRUE, valid |-> TRUE,
              target |-> "http://" \o urlParts[1] \o ":" \o urlParts[2] \o "/"
                         \o JoinWith(SubSeq(urlParts, 3, Len(urlParts)), "/")
                         \o (IF queryString # "" THEN "?" \o queryString ELSE ""),
              method |-> req.method,
              username |-> creds.username, password |-> creds.password]

NoRelay ==
    [seen |-> FALSE, valid |-> FALSE, target |-> "", method |-> "",
     username |-> "", password |-> ""]

\* the second half: the camera's status, content type and body are sent back
\* (the bodies here are ASCII, which text() and send() carry over unchanged);
\* a fetch that rejects becomes a 500
ProxyRespond(relay, cam, beh) ==
    IF ~relay.valid
    THEN HttpResponse(400, "application/json", "{\"error\":\"Invalid proxy URL format\"}")
    ELSE LET response == DigestFetch(relay.username, relay.password, relay.target, cam, beh)
         IN  IF response.kind = "fail"
             THEN HttpResponse(500, "application/json", "{\"error\":\"fetch failed\"}")
             ELSE HttpResponse(response.status, response.ctype, response.body)

(***************************************************************************)
(* CameraApiClient (apiClient.ts; ptzControl from the relay-only client).  *)
(***************************************************************************)
DefaultPort == 80

NoDigestClient == [set |-> FALSE, username |-> "", password |-> ""]

DigestClient(username, password) ==
    [set |-> TRUE, username |-> username, password |-> password]

\* the constructor
CameraApiClient(s) ==
    LET protocol == IF s.secure THEN "https" ELSE "http"
        port == IF s.port # 0 THEN s.port ELSE DefaultPort
    IN  [proxyMode |-> s.proxyMode,
         baseUrl |-> IF s.proxyMode
                     THEN RelayBase \o "/proxy/" \o s.host \o "/" \o NatToString(port)
                     ELSE protocol \o "://" \o s.host \o ":" \o NatToString(port),
         client |-> IF s.proxyMode THEN NoDigestClient
                    ELSE DigestClient(s.username, s.password),
         connected |-> FALSE,
         authHeader |-> "Basic " \o btoa(s.username \o ":" \o s.password)]

NoHeaders == [h \in {} |-> ""]

\* a proxy-mode request that leaves the credential header out
FetchWithoutHeader(inst, url) ==
    IF inst.proxyMode
    THEN [via |-> "fetch", method |-> "GET", url |-> url, headers |-> NoHeaders]
    ELSE [via |-> "digest", method |-> "GET", url |-> url, headers |-> NoHeaders]

\* the request a call issues: native fetch with the credential header in proxy
\* mode, the digest session otherwise (a missing session throws inside the try)
Fetch(inst, url) ==
    IF inst.proxyMode
    THEN [via |-> "fetch", method |-> "GET", url |-> url,
          headers |-> [h \in {"x-camera-auth"} |-> inst.authHeader]]
    ELSE IF ~inst.client.set
         THEN [via |-> "throw", method |-> "GET", url |-> url, headers |-> NoHeaders]
    ELSE [via |-> "digest", method |-> "GET", url |-> url, headers |-> NoHeaders]

\* cgiRequest up to its await
cgiRequestSend(inst, endpoint, params) ==
    LET queryString == URLSearchParams(params)
    IN  Fetch(inst, inst.baseUrl \o "/cgi-bin/" \o endpoint \o ".cgi"
                    \o (IF queryString # "" THEN "?" \o queryString ELSE ""))

getSnapshotUrl(inst, channel) ==
    inst.baseUrl \o "/cgi-bin/snapshot.cgi?channel=" \o NatToString(channel)

NoArgs ==
    [name |-> "", params |-> <<>>, channel |-> 1, action |-> "", code |-> "",
     arg1 |-> 0, arg2 |-> 0, arg3 |-> 0]

\* the request each request-issuing method sends
OpRequest(inst, op, args) ==
    CASE op = "getDeviceType" ->
            cgiRequestSend(inst, "magicBox", << <<"action", "getDeviceType">> >>)
      [] op = "getSerialNumber" ->
            cgiRequestSend(inst, "magicBox", << <<"action", "getSerialNo">> >>)
      [] op = "getHardwareVersion" ->
            cgiRequestSend(inst, "magicBox", << <<"action", "getHardwareVersion">> >>)
      [] op = "getSoftwareVersion" ->
            cgiRequestSend(inst, "magicBox", << <<"action", "getSoftwareVersion">> >>)
      [] op = "getConfig" ->
            cgiRequestSend(inst, "configManager",
                           << <<"action", "getConfig">>, <<"name", args.name>> >>)
      [] op = "setConfig" ->
            cgiRequestSend(inst, "configManager",
                           ObjectSpread(<< <<"action", "setConfig">> >>, args.params))
      [] op = "getSnapshot" -> Fetch(inst, getSnapshotUrl(inst, args.channel))
      [] op = "reboot" ->
            cgiRequestSend(inst, "magicBox", << <<"action", "reboot">> >>)
      [] op = "ptzControl" ->
            cgiRequestSend(inst, "ptz",
                << <<"action", args.action>>,
                   <<"channel", NatToString(args.channel)>>,
                   <<"code", args.code>>,
                   <<"arg1", NatToString(args.arg1)>>,
                   <<"arg2", NatToString(args.arg2)>>,
                   <<"arg3", NatToString(args.arg3)>> >>)

\* what a method resolves to: a returned value, or a rejection
Ret(v) == [threw |-> FALSE, value |-> v]
Raise == [threw |-> TRUE, value |-> Undefined]
NoResult == [threw |-> FALSE, value |-> Undefined]

\* cgiRequest after its await: the text, or a throw
cgiRequest(resp) ==
    IF ResponseOk(resp) THEN [threw |-> FALSE, text |-> resp.body]
    ELSE [threw |-> TRUE, text |-> ""]

\* x || null
OrNull(v) == IF Truthy(v) THEN v ELSE Null

\* the text of the response parsed, or the throw of cgiRequest or of the parser
ParsedText(resp) ==
    IF ~ResponseOk(resp) THEN [threw |-> TRUE, value |-> EmptyTree]
    ELSE parseKeyValueResponse(cgiRequest(resp).text)

\* parsed[key] || null, and null from the catch block
KeyOrNull(p, key) ==
    IF p.threw THEN Ret(Null) ELSE Ret(OrNull(ValueAt(p.value, <<key>>)))

\* the try block of the three single-key getters
KeyGetter(resp, key) == KeyOrNull(ParsedText(resp), key)

getDeviceType(resp) == KeyGetter(resp, "type")

getSerialNumber(resp) == KeyGetter(resp, "sn")

getHardwareVersion(resp) == KeyGetter(resp, "version")

\* values.version || values['Version'] || values.Build || null
VersionOrNull(values) ==
    IF "version" \in DOMAIN values /\ values["version"] # ""
    THEN Ret(JsStr(values["version"]))
    ELSE IF "Version" \in DOMAIN values /\ values["Version"] # ""
         THEN Ret(JsStr(values["Version"]))
    ELSE IF "Build" \in DOMAIN values /\ values["Build"] # ""
         THEN Ret(JsStr(values["Build"]))
    ELSE Ret(Null)

SimpleValuesOrNull(p) ==
    IF p.threw THEN Ret(Null) ELSE VersionOrNull(extractSimpleValues(p.value, ""))

getSoftwareVersion(resp) == SimpleValuesOrNull(ParsedText(resp))

MappingOrRaise(p) == IF p.threw THEN Raise ELSE Ret(ValueAt(p.value, <<>>))

getConfig(resp) == MappingOrRaise(ParsedText(resp))

\* setConfig with the success check made case-insensitive
setConfigAnyCase(resp) ==
    LET r == cgiRequest(resp)
    IN  IF r.threw THEN Ret(JsBool(FALSE))
        ELSE Ret(JsBool(includes(toLowerCase(r.text), "ok")))

\* setConfig testing for the upper-case spelling only
setConfigUpperCaseOnly(resp) ==
    LET r == cgiRequest(resp)
    IN  IF r.threw THEN Ret(JsBool(FALSE))
        ELSE Ret(JsBool(includes(r.text, "OK")))

\* setConfig with a catch block that re-raises, as getConfig's does
setConfigRethrows(resp) ==
    LET r == cgiRequest(resp)
    IN  IF r.threw THEN Raise
        ELSE Ret(JsBool(includes(r.text, "OK") \/ includes(r.text, "ok")))

setConfig(resp) ==
    LET r == cgiRequest(resp)
    IN  IF r.threw THEN Ret(JsBool(FALSE))
        ELSE Ret(JsBool(includes(r.text, "OK") \/ includes(r.text, "ok")))

getSnapshot(resp) ==
    IF ResponseOk(resp) THEN Ret(Node("blob", resp.body)) ELSE Ret(Null)

\* reboot with a catch block that re-raises, as getConfig's does
rebootRethrows(resp) ==
    LET r == cgiRequest(resp)
    IN  IF r.threw THEN Raise ELSE Ret(JsBool(TRUE))

reboot(resp) ==
    LET r == cgiRequest(resp)
    IN  IF r.threw THEN Ret(JsBool(FALSE)) ELSE Ret(JsBool(TRUE))

ptzControl(resp) ==
    LET r == cgiRequest(resp)
    IN  IF r.threw THEN Ret(JsBool(FALSE))
        ELSE Ret(JsBool(includes(r.text, "OK") \/ includes(r.text, "ok")))

\* what a request-issuing method resolves to once its fetch has settled with resp
OpReturn(op, resp) ==
    CASE op = "getDeviceType" -> getDeviceType(resp)
      [] op = "getSerialNumber" -> getSerialNumber(resp)
      [] op = "getHardwareVersion" -> getHardwareVersion(resp)
      [] op = "getSoftwareVersion" -> getSoftwareVersion(resp)
      [] op = "getConfig" -> getConfig(resp)
      [] op = "setConfig" -> setConfig(resp)
      [] op = "getSnapshot" -> getSnapshot(resp)
      [] op = "reboot" -> reboot(resp)
      [] op = "ptzControl" -> ptzControl(resp)

\* testConnection testing the device type against undefined only
testConnectionNotUndefined(deviceType) ==
    IF deviceType.threw THEN Ret(JsBool(FALSE))
    ELSE Ret(JsBool(deviceType.value # Undefined))

\* testConnection after its await of getDeviceType()
testConnection(deviceType) ==
    IF deviceType.threw THEN Ret(JsBool(FALSE))
    ELSE Ret(JsBool(Truthy(deviceType.value)))

InfoGetters ==
    {"getDeviceType", "getSerialNumber", "getHardwareVersion", "getSoftwareVersion"}

InfoFields == {"deviceType", "serialNumber", "hardwareVersion", "softwareVersion"}

InfoGetterOf(field) ==
    CASE field = "deviceType" -> "getDeviceType"
      [] field = "serialNumber" -> "getSerialNumber"
      [] field = "hardwareVersion" -> "getHardwareVersion"
      [] field = "softwareVersion" -> "getSoftwareVersion"

\* x || undefined
OrUndefined(v) == IF Truthy(v) THEN v ELSE Undefined

\* getSystemInfo after Promise.all: outs maps each getter to what it resolved to
getSystemInfo(outs) ==
    IF \E g \in InfoGetters : outs[g].threw
    THEN Ret(Node("object", [f \in InfoFields |-> Undefined]))
    ELSE Ret(Node("object",
                  [f \in InfoFields |-> OrUndefined(outs[InfoGetterOf(f)].value)]))

\* Promise.race in place of Promise.all: one getter has settled
AnySettled(subs) == \E g \in DOMAIN subs : subs[g].pc = "settled"

\* Promise.all has resolved: every getter has settled
AllSettled(subs) == \A g \in DOMAIN subs : subs[g].pc = "settled"

\* an instance that also records reachability whenever getDeviceType returns
AfterCallCaching(inst, op, result) ==
    IF op = "testConnection"
    THEN [inst EXCEPT !.connected = result.value.v]
    ELSE IF op = "getDeviceType"
         THEN [inst EXCEPT !.connected = Truthy(result.value)]
    ELSE inst

\* the instance after a method has returned `result`
AfterCall(inst, op, result) ==
    IF op = "testConnection"
    THEN [inst EXCEPT !.connected = result.value.v]
    ELSE inst

(***************************************************************************)
(* Calls in flight.  A call slot holds one invocation of a client method;  *)
(* each request it issued is in `subs`, keyed by the method that issued it.*)
(***************************************************************************)
MaxCalls == 2
CallIds == 1..MaxCalls
ClientIds == {"direct", "relayed"}

NoSub ==
    [pc |-> "none", req |-> Fetch(CameraApiClient([host |-> "", port |-> 0,
                secure |-> FALSE, username |-> "", password |-> "",
                proxyMode |-> FALSE]), ""),
     relay |-> NoRelay, beh |-> NoResponse, resp |-> NoResponse, out |-> NoResult]

Idle ==
    [op |-> "", cid |-> "", args |-> NoArgs, pc |-> "idle",
     subs |-> [g \in {} |-> NoSub], result |-> NoResult]

Composite(op) == op \in {"testConnection", "getSystemInfo"}

\* the request-issuing methods a method calls before its first await
SubsOf(op) ==
    CASE op = "testConnection" -> {"getDeviceType"}
      [] op = "getSystemInfo" -> InfoGetters
      [] OTHER -> {op}

\* a method is called: it runs up to its await, its requests are issued
Start(i, c, op, args) ==
    /\ calls[i].pc = "idle"
    /\ op = "ptzControl" => clients[c].proxyMode
    /\ calls' = [calls EXCEPT ![i] =
          [op |-> op, cid |-> c, args |-> args, pc |-> "running",
           subs |-> [g \in SubsOf(op) |->
                       [pc |-> "sent", req |-> OpRequest(clients[c], g, args),
                        relay |-> NoRelay, beh |-> NoResponse,
                        resp |-> NoResponse, out |-> NoResult]],
           result |-> NoResult]]
    /\ UNCHANGED <<preview, ptz, overlay, storage, page, text, parsed, realm, settings, camera, clients>>

\* the relay receives a request of a proxy-mode client
RelayHandle(i, g) ==
    /\ calls[i].pc = "running"
    /\ g \in DOMAIN calls[i].subs
    /\ calls[i].subs[g].pc = "sent"
    /\ calls[i].subs[g].req.via = "fetch"
    /\ calls' = [calls EXCEPT ![i].subs[g].relay = ProxyHandle(calls[i].subs[g].req),
                              ![i].subs[g].pc = "relayed"]
    /\ UNCHANGED <<preview, ptz, overlay, storage, page, text, parsed, realm, settings, camera, clients>>

\* the response the awaiting method receives when the camera behaves as `beh`
Deliver(inst, sub, cam, beh) ==
    CASE sub.req.via = "fetch" -> ProxyRespond(sub.relay, cam, beh)
      [] sub.req.via = "digest" ->
            DigestFetch(inst.client.username, inst.client.password, sub.req.url, cam, beh)
      [] OTHER -> TransportFailure

\* a fetch settles and the method that awaited it runs to its end; a method
\* that is not composite returns to its caller here
Resume(i, g, beh) ==
    /\ calls[i].pc = "running"
    /\ g \in DOMAIN calls[i].subs
    /\ calls[i].subs[g].pc = (IF calls[i].subs[g].req.via = "fetch" THEN "relayed" ELSE "sent")
    /\ beh \in camera.replies
    /\ LET c == calls[i].cid
           resp == Deliver(clients[c], calls[i].subs[g], camera, beh)
           out == OpReturn(g, resp)
           done == ~Composite(calls[i].op)
       IN  /\ calls' = [calls EXCEPT
                  ![i].subs[g].pc = "settled",
                  ![i].subs[g].beh = beh,
                  ![i].subs[g].resp = resp,
                  ![i].subs[g].out = out,
                  ![i].pc = IF done THEN "done" ELSE "running",
                  ![i].result = IF done THEN out ELSE NoResult]
           /\ clients' = IF done
                         THEN [clients EXCEPT ![c] = AfterCall(clients[c], calls[i].op, out)]
                         ELSE clients
    /\ UNCHANGED <<preview, ptz, overlay, storage, page, text, parsed, realm, settings, camera>>

\* a composite method continues after its await and returns
Finish(i) ==
    /\ calls[i].pc = "running"
    /\ Composite(calls[i].op)
    /\ AllSettled(calls[i].subs)
    /\ LET c == calls[i].cid
           outs == [g \in DOMAIN calls[i].subs |-> calls[i].subs[g].out]
           result == IF calls[i].op = "testConnection"
                     THEN testConnection(outs["getDeviceType"])
                     ELSE getSystemInfo(outs)
       IN  /\ calls' = [calls EXCEPT ![i].pc = "done", ![i].result = result]
           /\ clients' = [clients EXCEPT ![c] = AfterCall(clients[c], calls[i].op, result)]
    /\ UNCHANGED <<preview, ptz, overlay, storage, page, text, parsed, realm, settings, camera>>

\* the caller has consumed the result
Forget(i) ==
    /\ calls[i].pc = "done"
    /\ calls' = [calls EXCEPT ![i] = Idle]
    /\ UNCHANGED <<preview, ptz, overlay, storage, page, text, parsed, realm, settings, camera, clients>>

(***************************************************************************)
(* Inputs.                                                                 *)
(***************************************************************************)
IdentityBody == "type=IPC-HX\nsn=A1\nversion=1.2\n"
BrokenBody == "table.x=1\ntable.x.y.z=2"

AllReplies ==
    {TransportFailure,
     HttpResponse(500, "text/plain", "Error"),
     HttpResponse(200, "text/plain", ""),
     HttpResponse(200, "text/plain", "OK"),
     HttpResponse(200, "text/plain", "Ok"),
     HttpResponse(200, "text/plain", "Invalid token"),
     HttpResponse(200, "text/plain", IdentityBody),
     HttpResponse(200, "text/plain", "type=0"),
     HttpResponse(200, "text/plain", BrokenBody),
     HttpResponse(200, "image/jpeg", "JFIF")}

ArgsOf(op) ==
    CASE op = "getConfig" -> {[NoArgs EXCEPT !.name = "ChannelTitle"]}
      [] op = "setConfig" ->
            {[NoArgs EXCEPT !.params = << <<"ChannelTitle[0].Name", "Cam 1">> >>],
             [NoArgs EXCEPT !.params = << <<"action", "getConfig">>,
                                          <<"name", "ChannelTitle">> >>]}
      [] op = "ptzControl" ->
            {[NoArgs EXCEPT !.action = "start", !.code = "Up", !.arg2 = 4],
             [NoArgs EXCEPT !.action = "stop", !.code = "Up"]}
      [] OTHER -> {NoArgs}

SimpleOps ==
    {"getDeviceType", "getSerialNumber", "getHardwareVersion", "getSoftwareVersion",
     "getConfig", "setConfig", "getSnapshot", "reboot", "ptzControl"}

WithMode(s, c) ==
    [host |-> s.host, port |-> s.port, secure |-> s.secure,
     username |-> s.username, password |-> s.password, proxyMode |-> c = "relayed"]

\* the two clients a user of `s` can construct
Construct(s) == [c \in ClientIds |-> CameraApiClient(WithMode(s, c))]

\* the camera the settings point at, holding the account `username`/`password`
CameraFor(s, tls, username, password, replies) ==
    [host |-> s.host, port |-> IF s.port # 0 THEN s.port ELSE DefaultPort,
     tls |-> tls, username |-> username, password |-> password, replies |-> replies]

\* an empty localStorage, and the module state of useCamera as loaded
NoStorage == [k \in {} |-> ""]

\* the most connect calls in progress at once
MaxConnects == 2
ConnectIds == 1..MaxConnects

NoSettings ==
    [host |-> "", port |-> 0, secure |-> FALSE, username |-> "", password |-> "",
     debugEnabled |-> FALSE]

\* a connect call: where it stands, the settings it was given, whether its
\* refreshSystemInfo has a getSystemInfo in flight, and what it returned
NoConnect == [pc |-> "idle", s |-> NoSettings, sent |-> FALSE, returned |-> "nothing"]

\* systemInfo = {}
NoInfo == [f \in {} |-> ""]

NoPage ==
    [client |-> FALSE, connectionState |-> "disconnected", systemInfo |-> NoInfo,
     errorMessage |-> "", latest |-> 0, connects |-> [c \in ConnectIds |-> NoConnect]]

\* the live preview as set up: the refs of the component with their initial
\* values (null is 0 for a URL or a timer id and "" for the error text), the
\* timers setInterval has created and not cleared, the snapshot fetches
\* issued, in issue order, and the blob URLs created, in creation order
NoPreview ==
    [phase |-> "setup", imageUrl |-> 0, previousBlobUrl |-> 0, isLoading |-> TRUE,
     error |-> "", isRefreshing |-> TRUE, refreshRate |-> 1000, pollInterval |-> 0,
     timers |-> {}, created |-> 0, fetches |-> <<>>, urls |-> <<>>]

\* the PTZ page as mounted: its refs (null is ""), the button under the
\* pointer and whether the mouse button is down on it, and the PTZ requests
\* sent, in order
NoPtz ==
    [phase |-> "mounted", isMoving |-> FALSE, activeMovement |-> "", over |-> "",
     down |-> FALSE, reqs |-> <<>>]

\* the refs of the overlay settings component, each with its initial value
OverlayDefaults ==
    [cameraName |-> "", showOverlay |-> TRUE, showTimestamp |-> TRUE,
     position |-> "top-left", timestampPosition |-> "top-right", showLogo |-> FALSE,
     logoPosition |-> "bottom-right", overlayOpacity |-> 50, overlayBgColor |-> "black",
     overlayTextColor |-> "white", timestampOpacity |-> 50,
     timestampBgColor |-> "black", timestampTextColor |-> "white"]

\* no save in progress; returned: how the last save ended
NoSave == [pc |-> "idle", params |-> <<>>, returned |-> "nothing"]

\* the overlay settings component as set up (message null is "")
NoOverlay ==
    [current |-> OverlayDefaults, original |-> OverlayDefaults, isSaving |-> FALSE,
     message |-> "", timeouts |-> 0, save |-> NoSave]

NoSimpleValues == [k \in {} |-> ""]

NotParsed ==
    [done |-> FALSE, threw |-> FALSE, value |-> EmptyTree,
     extracted |-> FALSE, prefix |-> "", simple |-> NoSimpleValues]

(***************************************************************************)
(* Spec: the methods of the client against a camera that may answer        *)
(* anything.                                                               *)
(***************************************************************************)
PlainSettings ==
    [host |-> "cam", port |-> 8080, secure |-> FALSE,
     username |-> "admin", password |-> "pw"]

Init ==
    /\ text = ""
    /\ parsed = NotParsed
    /\ realm = PristineRealm
    /\ settings = PlainSettings
    /\ camera = CameraFor(settings, FALSE, "admin", "pw", AllReplies)
    /\ clients = Construct(settings)
    /\ calls = [i \in CallIds |-> Idle]
    /\ storage = NoStorage
    /\ page = NoPage
    /\ preview = NoPreview
    /\ ptz = NoPtz
    /\ overlay = NoOverlay

Next ==
    \/ \E i \in CallIds, c \in ClientIds, op \in SimpleOps \cup {"testConnection"} :
          \E args \in ArgsOf(op) : Start(i, c, op, args)
    \/ \E i \in CallIds, g \in SimpleOps : RelayHandle(i, g)
    \/ \E i \in CallIds, g \in SimpleOps, beh \in AllReplies : Resume(i, g, beh)
    \/ \E i \in CallIds : Finish(i)
    \/ \E i \in CallIds : Forget(i)

Spec == Init /\ [][Next]_vars

(***************************************************************************)
(* SpecParse: the parser applied to every response body of up to MaxLines  *)
(* lines drawn from Lines.                                                 *)
(***************************************************************************)
MaxLines == 3

Lines ==
    <<"a=1", "a.b=2", "a.b.c=3", "a[0]=x", "a[0].b=true", "a=", "# a=9", "junk",
      " a = \"q\" ", "b[1].c=0.5", "b=True", "c=-07.10", "d=\"", "a.d=false",
      "Error", "  ", "=5", "OK">>

RECURSIVE BodiesOf(_)
BodiesOf(n) ==
    IF n = 1 THEN {Lines[k] : k \in DOMAIN Lines}
    ELSE {b \o "\n" \o Lines[k] : b \in BodiesOf(n - 1), k \in DOMAIN Lines}

Texts == UNION {BodiesOf(n) : n \in 1..MaxLines}

InitParse ==
    /\ text \in Texts
    /\ parsed = NotParsed
    /\ realm = PristineRealm
    /\ settings = PlainSettings
    /\ camera = CameraFor(settings, FALSE, "admin", "pw", {})
    /\ clients = Construct(settings)
    /\ calls = [i \in CallIds |-> Idle]
    /\ storage = NoStorage
    /\ page = NoPage
    /\ preview = NoPreview
    /\ ptz = NoPtz
    /\ overlay = NoOverlay

\* the call returns or raises, and leaves its realm behind
Parsed(r) ==
    /\ parsed' = [NotParsed EXCEPT !.done = TRUE, !.threw = r.threw, !.value = r.value]
    /\ realm' = r.realm

\* parseKeyValueResponse(text) is called
Parse ==
    /\ ~parsed.done
    /\ Parsed(parseKeyValueResponseIn(realm, text))
    /\ UNCHANGED <<preview, ptz, overlay, storage, page, text, settings, camera, clients, calls>>

Prefixes == {"", "info"}

\* extractSimpleValues(parsed, prefix) is called on the mapping returned
Extract ==
    /\ parsed.done /\ ~parsed.threw /\ ~parsed.extracted
    /\ \E prefix \in Prefixes :
          parsed' = [parsed EXCEPT !.extracted = TRUE, !.prefix = prefix,
                                   !.simple = extractSimpleValues(parsed.value, prefix)]
    /\ UNCHANGED <<preview, ptz, overlay, storage, page, text, realm, settings, camera, clients, calls>>

NextParse == Parse \/ Extract

SpecParse == InitParse /\ [][NextParse]_vars

\* C4: parseKeyValueResponse never raises, whatever the text: not when a key
\* path passes through a key or an array element that an earlier line of the
\* same response bound to a boolean, a number or a string.
ParserNeverRaises == parsed.done => ~parsed.threw

\* a response in which a later line descends through a key bound to a number
\* has been parsed
ParsedThroughPrimitive ==
    /\ parsed.done
    /\ text = "a=1\na.b.c=3"

(***************************************************************************)
(* Properties of the client methods, under Spec.                           *)
(***************************************************************************)
\* the calls of `op` that have returned
Returned(op) == {i \in CallIds : calls[i].pc = "done" /\ calls[i].op = op}

\* the response the call's own request received
ResponseOf(i, g) == calls[i].subs[g].resp

\* C1: getConfig raises exactly when its request fails (transport failure or
\* non-2xx status); for every 2xx response, whatever the body, it returns the
\* parsed mapping without raising.
GetConfigRaisesExactlyOnFailure ==
    \A i \in Returned("getConfig") :
        calls[i].result.threw <=> ~ResponseOk(ResponseOf(i, "getConfig"))

\* a getConfig call has returned from a 2xx response whose second line
\* descends through a key the first line bound to a number
GetConfigOnBrokenBody ==
    \E i \in Returned("getConfig") :
        /\ ResponseOk(ResponseOf(i, "getConfig"))
        /\ ResponseOf(i, "getConfig").body = BrokenBody

BestEffortOps ==
    {"getDeviceType", "getSerialNumber", "getHardwareVersion", "getSoftwareVersion",
     "getSnapshot", "ptzControl", "reboot"}

Sentinel(op) == IF op \in {"ptzControl", "reboot"} THEN JsBool(FALSE) ELSE Null

\* C2: the best-effort methods never raise, and when the request fails at
\* transport level or comes back non-2xx each resolves to its sentinel: null
\* for the four getters and getSnapshot, false for ptzControl and reboot.
BestEffortNeverRaise ==
    \A i \in CallIds : \A g \in DOMAIN calls[i].subs :
        (calls[i].subs[g].pc = "settled" /\ g \in BestEffortOps) =>
            /\ ~calls[i].subs[g].out.threw
            /\ ~ResponseOk(calls[i].subs[g].resp) =>
                  calls[i].subs[g].out.value = Sentinel(g)

\* a reboot met a transport failure and a getSnapshot a 500, and both returned
BestEffortFailed ==
    /\ \E i \in Returned("reboot") : ResponseOf(i, "reboot").kind = "fail"
    /\ \E i \in Returned("getSnapshot") : ResponseOf(i, "getSnapshot").status = 500

\* the value the parser makes of the text after `type=` is non-empty
YieldsDeviceType(body) ==
    LET p == parseKeyValueResponse(body)
    IN  ~p.threw /\ Truthy(ValueAt(p.value, <<"type">>))

OkOnlyOnOkText ==
    \A op \in {"setConfig", "ptzControl"} : \A i \in Returned(op) :
        /\ ~calls[i].result.threw
        /\ calls[i].result.value =
              JsBool(/\ ResponseOk(ResponseOf(i, op))
                     /\ \/ includes(ResponseOf(i, op).body, "OK")
                        \/ includes(ResponseOf(i, op).body, "ok"))

\* a setConfig returned false from a 2xx response saying "Ok", and a
\* ptzControl returned true
OkTextSeen ==
    /\ \E i \in Returned("setConfig") :
          /\ ResponseOf(i, "setConfig") = HttpResponse(200, "text/plain", "Ok")
          /\ calls[i].result.value = JsBool(FALSE)
    /\ \E i \in Returned("ptzControl") : calls[i].result.value = JsBool(TRUE)

\* C10 as stated: no operation, testConnection included, changes any field of
\* a client instance.
ClientNeverChanges == [][clients' = clients]_vars

\* a testConnection call on client c returns in this step
TestConnectionReturns(c) ==
    \E i \in CallIds :
        /\ calls[i].op = "testConnection" /\ calls[i].cid = c
        /\ calls[i].pc = "running" /\ calls'[i].pc = "done"
        /\ clients'[c].connected = calls'[i].result.value.v

\* C10, amended: baseUrl, proxyMode, authHeader and the digest session of an
\* instance never change, and `connected` changes only in the step in which a
\* testConnection call on that instance returns, to the value it returns.
OnlyTestConnectionWritesConnected ==
    [][\A c \in ClientIds :
          /\ clients'[c] = [clients[c] EXCEPT !.connected = clients'[c].connected]
          /\ clients'[c] # clients[c] => TestConnectionReturns(c)]_vars

\* a testConnection has returned true and left its instance connected while
\* another call of the same instance is in flight
ConnectedWhileOthersRun ==
    \E i, j \in CallIds :
        /\ i # j /\ calls[i].cid = calls[j].cid
        /\ calls[i].op = "testConnection" /\ calls[i].pc = "done"
        /\ clients[calls[i].cid].connected
        /\ calls[j].pc = "running"

(***************************************************************************)
(* SpecInfo: getSystemInfo, its four requests settling in every order.     *)
(***************************************************************************)
MaxInfoCalls == 1

InfoReplies ==
    {TransportFailure,
     HttpResponse(200, "text/plain", IdentityBody),
     HttpResponse(200, "text/plain", "type=IPC-HX\n"),
     HttpResponse(200, "text/plain", BrokenBody)}

InitInfo ==
    /\ text = ""
    /\ parsed = NotParsed
    /\ realm = PristineRealm
    /\ settings = PlainSettings
    /\ camera = CameraFor(settings, FALSE, "admin", "pw", InfoReplies)
    /\ clients = Construct(settings)
    /\ calls = [i \in CallIds |-> Idle]
    /\ storage = NoStorage
    /\ page = NoPage
    /\ preview = NoPreview
    /\ ptz = NoPtz
    /\ overlay = NoOverlay

NextInfo ==
    \/ \E i \in 1..MaxInfoCalls, c \in ClientIds : Start(i, c, "getSystemInfo", NoArgs)
    \/ \E i \in CallIds, g \in InfoGetters : RelayHandle(i, g)
    \/ \E i \in CallIds, g \in InfoGetters, beh \in InfoReplies : Resume(i, g, beh)
    \/ \E i \in CallIds : Finish(i)
    \/ \E i \in CallIds : Forget(i)

SpecInfo == InitInfo /\ [][NextInfo]_vars

\* the body gives the getter a non-empty value under the key it reads
YieldsValue(g, body) ==
    LET p == parseKeyValueResponse(body)
        values == extractSimpleValues(p.value, "")
    IN  /\ ~p.threw
        /\ CASE g = "getDeviceType" -> Truthy(ValueAt(p.value, <<"type">>))
             [] g = "getSerialNumber" -> Truthy(ValueAt(p.value, <<"sn">>))
             [] g = "getHardwareVersion" -> Truthy(ValueAt(p.value, <<"version">>))
             [] g = "getSoftwareVersion" ->
                   \E k \in {"version", "Version", "Build"} :
                       k \in DOMAIN values /\ values[k] # ""

Accounts == {<<"admin", "pw">>, <<"admin", "a:b">>, <<"admin", "">>}

Endpoints == {<<0, FALSE>>, <<8080, FALSE>>, <<8080, TRUE>>}

AuthSettings ==
    {[host |-> "cam", port |-> e[1], secure |-> e[2], username |-> a[1], password |-> a[2]] :
        e \in Endpoints, a \in Accounts}

AuthReplies ==
    {TransportFailure, HttpResponse(200, "text/plain", IdentityBody)}

AuthOps == (SimpleOps \ {"getSoftwareVersion", "getHardwareVersion"}) \cup {"testConnection"}

\* the camera holds the account of the settings; against the password a:b it
\* may hold admin/a instead
InitAuth ==
    /\ text = ""
    /\ parsed = NotParsed
    /\ realm = PristineRealm
    /\ settings \in AuthSettings
    /\ camera \in {CameraFor(settings, settings.secure, a[1], a[2], AuthReplies) :
                      a \in {<<settings.username, settings.password>>} \cup
                           (IF settings.password = "a:b" THEN {<<"admin", "a">>} ELSE {})}
    /\ clients = Construct(settings)
    /\ calls = [i \in CallIds |-> Idle]
    /\ storage = NoStorage
    /\ page = NoPage
    /\ preview = NoPreview
    /\ ptz = NoPtz
    /\ overlay = NoOverlay

NextAuth ==
    \/ \E i \in CallIds, c \in ClientIds, op \in AuthOps :
          \E args \in ArgsOf(op) : Start(i, c, op, args)
    \/ \E i \in CallIds, g \in SimpleOps : RelayHandle(i, g)
    \/ \E i \in CallIds, g \in SimpleOps, beh \in AuthReplies : Resume(i, g, beh)
    \/ \E i \in CallIds : Finish(i)
    \/ \E i \in CallIds : Forget(i)

SpecAuth == InitAuth /\ [][NextAuth]_vars

EffectivePort == IF settings.port # 0 THEN settings.port ELSE 80

\* C7: the mode of an instance is the one it was constructed with, and every
\* request of the relayed client is a plain GET to
\* {relayBase}/proxy/{host}/{port}/cgi-bin/... with the single header
\* x-camera-auth = "Basic " + base64(username:password), issued without a
\* digest session, while every request of the direct client goes through its
\* digest session to the camera origin and carries no x-camera-auth header.
RequestsFollowMode ==
    LET relayPrefix == "http://localhost:3001/proxy/" \o settings.host \o "/"
                       \o ToString(EffectivePort) \o "/cgi-bin/"
        cameraPrefix == (IF settings.secure THEN "https" ELSE "http") \o "://"
                        \o settings.host \o ":" \o ToString(EffectivePort) \o "/cgi-bin/"
        token == btoa(settings.username \o ":" \o settings.password)
    IN  /\ \A c \in ClientIds :
              /\ clients[c].proxyMode = (c = "relayed")
              /\ clients[c].client.set = (c = "direct")
        /\ Base64Decode(token) = settings.username \o ":" \o settings.password
        /\ \A i \in CallIds : \A g \in DOMAIN calls[i].subs :
              LET req == calls[i].subs[g].req
              IN  IF calls[i].cid = "relayed"
                  THEN /\ req.via = "fetch"
                       /\ req.method = "GET"
                       /\ startsWith(req.url, relayPrefix)
                       /\ DOMAIN req.headers = {"x-camera-auth"}
                       /\ req.headers["x-camera-auth"] = "Basic " \o token
                  ELSE /\ req.via = "digest"
                       /\ req.method = "GET"
                       /\ startsWith(req.url, cameraPrefix)
                       /\ "x-camera-auth" \notin DOMAIN req.headers

\* with the port left unset and a password that holds a colon, the relayed
\* client has a snapshot request at the relay while the direct client has a
\* request of its own in flight
BothModesInFlight ==
    /\ settings.port = 0
    /\ settings.password = "a:b"
    /\ \E i, j \in CallIds :
          /\ calls[i].cid = "relayed" /\ calls[i].op = "getSnapshot"
          /\ calls[i].subs["getSnapshot"].pc = "relayed"
          /\ calls[i].subs["getSnapshot"].req.url
                = "http://localhost:3001/proxy/cam/80/cgi-bin/snapshot.cgi?channel=1"
          /\ calls[j].cid = "direct" /\ calls[j].pc = "running"

\* C8: for the same camera behaviour and the same account, an operation gives
\* the same outcome (value, sentinel or raise) on the direct client and on
\* the relayed client.
ModesEquivalent ==
    \A i, j \in CallIds :
        ( /\ calls[i].pc = "done" /\ calls[j].pc = "done"
          /\ calls[i].cid = "direct" /\ calls[j].cid = "relayed"
          /\ calls[i].op = calls[j].op /\ calls[i].args = calls[j].args
          /\ \A g \in DOMAIN calls[i].subs :
                calls[i].subs[g].beh = calls[j].subs[g].beh )
        => calls[i].result = calls[j].result

\* the same operation has returned on both clients after the same camera
\* behaviour
SameCallOnBothModes ==
    \E i, j \in CallIds :
        /\ calls[i].pc = "done" /\ calls[j].pc = "done"
        /\ calls[i].cid = "direct" /\ calls[j].cid = "relayed"
        /\ calls[i].op = "getDeviceType" /\ calls[j].op = "getDeviceType"
        /\ calls[i].subs["getDeviceType"].beh = calls[j].subs["getDeviceType"].beh
        /\ calls[i].subs["getDeviceType"].beh.kind = "http"

\* C9: the username and the password the relay decodes from x-camera-auth and
\* hands to its Digest fetch are those the client was constructed with.
RelayUsesClientCredentials ==
    \A i \in CallIds : \A g \in DOMAIN calls[i].subs :
        (calls[i].subs[g].relay.seen /\ calls[i].subs[g].relay.valid) =>
            /\ calls[i].subs[g].relay.username = settings.username
            /\ calls[i].subs[g].relay.password = settings.password

\* the relay has decoded the header of a client whose password holds a colon
RelayDecodedColonPassword ==
    /\ settings.password = "a:b"
    /\ \E i \in CallIds : \E g \in DOMAIN calls[i].subs : calls[i].subs[g].relay.seen

(***************************************************************************)
(* Properties of the parser, under SpecParse.                              *)
(***************************************************************************)
\* the lines of the text that are not blank
NonBlankLines == SelectSeq(split(text, "\n"), LAMBDA l : trim(l) # "")

KeyOfLine(l) == trim(substring(l, 0, indexOf(l, "=")))

ValueOfLine(l) == trim(substring(l, indexOf(l, "=") + 1, Len(l)))

\* a key=value line whose key holds no '.', '[' or ']'
IsFlatLine(l) ==
    /\ indexOf(l, "=") > 0
    /\ KeyOfLine(l) # ""
    /\ \A ch \in {".", "[", "]"} : ~includes(KeyOfLine(l), ch)

\* the coercion rules as the claim words them, tried in order
Coercion(v) ==
    IF toLowerCase(v) = "true" THEN JsBool(TRUE)
    ELSE IF toLowerCase(v) = "false" THEN JsBool(FALSE)
    ELSE IF IsNumberText(v) THEN parseFloat(v)
    ELSE IF Len(v) >= 2 /\ startsWith(v, "\"") /\ endsWith(v, "\"")
         THEN JsStr(SubSeq(v, 2, Len(v) - 1))
    ELSE JsStr(v)

\* the last line of the text that assigns the key
LastLineOf(k) ==
    NonBlankLines[CHOOSE i \in DOMAIN NonBlankLines :
        /\ KeyOfLine(NonBlankLines[i]) = k
        /\ \A j \in DOMAIN NonBlankLines : KeyOfLine(NonBlankLines[j]) = k => j <= i]

\* C11: for a text whose non-blank lines are key=value with keys free of '.',
\* '[' and ']', the parser returns the flat mapping of each key to the
\* coercion of the trimmed text after the first '=' of the last line that
\* has the key: boolean for true/false in any case, number for
\* ^-?\d+(\.\d+)?$, the inside of a matching pair of double quotes, else the
\* same string.
FlatTextGivesCoercedMapping ==
    (parsed.done /\ \A i \in DOMAIN NonBlankLines : IsFlatLine(NonBlankLines[i])) =>
        /\ ~parsed.threw
        /\ DOMAIN parsed.value =
              {<<>>} \cup {<<KeyOfLine(NonBlankLines[i])>> : i \in DOMAIN NonBlankLines}
        /\ \A p \in DOMAIN parsed.value :
              p # <<>> => parsed.value[p] = Coercion(ValueOfLine(LastLineOf(p[1])))

\* a flat text with a duplicate key, a boolean, a number and a quoted value
\* has been parsed
FlatTextParsed ==
    /\ parsed.done
    /\ text = "a=1\n a = \"q\" \nb=True"
    /\ parsed.value[<<"a">>] = JsStr("q")
    /\ parsed.value[<<"b">>] = JsBool(TRUE)

\* a line the loop reaches the dispatch with: it has '=' and a key
IsAssignment(l) ==
    /\ trim(l) # "Error"
    /\ indexOf(l, "=") # -1
    /\ KeyOfLine(l) # ""

\* a line whose key is in dot notation
IsDottedLine(l) ==
    /\ IsAssignment(l)
    /\ includes(KeyOfLine(l), ".")
    /\ ~(includes(KeyOfLine(l), "[") /\ includes(KeyOfLine(l), "]"))

\* the index of the last line that assigns the key
LastAssigning(k) ==
    CHOOSE i \in DOMAIN NonBlankLines :
        /\ IsAssignment(NonBlankLines[i]) /\ KeyOfLine(NonBlankLines[i]) = k
        /\ \A j \in DOMAIN NonBlankLines :
              (IsAssignment(NonBlankLines[j]) /\ KeyOfLine(NonBlankLines[j]) = k) => j <= i

\* the value found by descending the segments of a key from the result
Descended(k) ==
    IF split(k, ".") \in DOMAIN parsed.value THEN parsed.value[split(k, ".")]
    ELSE Undefined

\* a line after the last one assigning k assigns a proper prefix of k's path
PrefixAssignedLater(k) ==
    \E j \in DOMAIN NonBlankLines :
        /\ j > LastAssigning(k)
        /\ IsAssignment(NonBlankLines[j])
        /\ KeyOfLine(NonBlankLines[j]) # k
        /\ IsPrefix(split(KeyOfLine(NonBlankLines[j]), "."), split(k, "."))

IsIndexedLine(l) ==
    /\ IsAssignment(l)
    /\ includes(KeyOfLine(l), "[") /\ includes(KeyOfLine(l), "]")

\* the property names a sequence of key parts walks through
RECURSIVE PartsPath(_)
PartsPath(parts) ==
    IF parts = <<>> THEN <<>>
    ELSE IF parts[1] = "" THEN PartsPath(Tail(parts))
    ELSE IF ArrayMatch(parts[1])
         THEN <<ArrayName(parts[1]), ArrayIndex(parts[1])>> \o PartsPath(Tail(parts))
    ELSE <<parts[1]>> \o PartsPath(Tail(parts))

\* the path of property names a line assigns
KeyPath(l) ==
    IF IsIndexedLine(l) THEN PartsPath(split(KeyOfLine(l), "."))
    ELSE IF IsDottedLine(l) THEN PartsPath(SelectSeq(split(KeyOfLine(l), "."),
                                                     LAMBDA part : part # ""))
    ELSE <<KeyOfLine(l)>>

AssignmentIndices == {i \in DOMAIN NonBlankLines : IsAssignment(NonBlankLines[i])}

\* the places name[i] of the text: line i, part k of its key
IndexedSegments ==
    {s \in AssignmentIndices \X (1..4) :
        /\ IsIndexedLine(NonBlankLines[s[1]])
        /\ s[2] <= Len(split(KeyOfLine(NonBlankLines[s[1]]), "."))
        /\ ArrayMatch(split(KeyOfLine(NonBlankLines[s[1]]), ".")[s[2]])}

PartsOf(s) == split(KeyOfLine(NonBlankLines[s[1]]), ".")

\* the path of the name of an indexed segment, and of its element
NamePath(s) == PartsPath(SubSeq(PartsOf(s), 1, s[2] - 1)) \o <<ArrayName(PartsOf(s)[s[2]])>>

ElementPath(s) == Append(NamePath(s), ArrayIndex(PartsOf(s)[s[2]]))

IsFinalSegment(s) == s[2] = Len(PartsOf(s))

\* line i is the last one that assigns its path, and no later line assigns
\* a proper prefix of it
StandsAtEnd(i) ==
    \A j \in AssignmentIndices :
        (j > i) => ~IsPrefix(KeyPath(NonBlankLines[j]), KeyPath(NonBlankLines[i]))

\* what the claim says of one indexed segment
SegmentAsClaimed(s) ==
    /\ NamePath(s) \in DOMAIN parsed.value
    /\ parsed.value[NamePath(s)].t = "array"
    /\ ElementPath(s) \in DOMAIN parsed.value
    /\ StandsAtEnd(s[1]) =>
          /\ KeyPath(NonBlankLines[s[1]]) \in DOMAIN parsed.value
          /\ parsed.value[KeyPath(NonBlankLines[s[1]])] =
                parseValue(ValueOfLine(NonBlankLines[s[1]]))
    /\ \A n \in 0..(DigitsValue(ArrayIndex(PartsOf(s)[s[2]])) - 1) :
          (\A j \in AssignmentIndices :
              ~IsPrefix(Append(NamePath(s), NatToString(n)), KeyPath(NonBlankLines[j])))
          => Append(NamePath(s), NatToString(n)) \notin DOMAIN parsed.value

\* the name of the segment was first bound by an indexed segment, and no
\* later line assigned the name or a prefix of its path
BoundAsSequence(s) ==
    LET binders == {j \in AssignmentIndices :
                       IsPrefix(NamePath(s), KeyPath(NonBlankLines[j]))}
        first == CHOOSE j \in binders : \A m \in binders : j <= m
    IN  /\ \E t \in IndexedSegments : t[1] = first /\ NamePath(t) = NamePath(s)
        /\ \A j \in AssignmentIndices :
              (j > first) => ~IsPrefix(KeyPath(NonBlankLines[j]), NamePath(s))

IsNoDataLine(l) == trim(l) = "" \/ ~IsAssignment(l)

\* the text with its no-data lines taken out
DataText ==
    JoinWith(SelectSeq(split(text, "\n"), LAMBDA l : ~IsNoDataLine(l)), "\n")

SameOutcome(r) == r.threw = parsed.threw /\ r.value = parsed.value

\* C14: lines that carry no data (blank, "Error" after trimming, without
\* '=', or with nothing before the '=') do not affect the result, which is
\* the result for the text without them; a body that is empty, only
\* white space, or "OK" after trimming gives the empty mapping.
NoDataLinesIgnored ==
    parsed.done =>
        /\ SameOutcome(parseKeyValueResponse(DataText))
        /\ (\A i \in DOMAIN NonBlankLines : IsNoDataLine(NonBlankLines[i])) =>
              (~parsed.threw /\ parsed.value = EmptyTree)
        /\ trim(text) \in {"", "OK"} => (~parsed.threw /\ parsed.value = EmptyTree)

\* a text of one data line between an "Error" line and a line with no key
NoDataLinesSkipped ==
    /\ parsed.done
    /\ text = "Error\na=1\n=5"
    /\ parsed.value = (<<>> :> EmptyObject @@ <<"a">> :> JsNum(1, 0))

(***************************************************************************)
(* SpecRealm: one page parses one response text after another.             *)
(***************************************************************************)
MaxRealmLines == 2

RealmLines == <<"x.y=2", "__proto__.x=1", "x=3", "__proto__[0]=q", "a[0]=x", "__proto__=5">>

RECURSIVE RealmBodiesOf(_)
RealmBodiesOf(n) ==
    IF n = 1 THEN {RealmLines[k] : k \in DOMAIN RealmLines}
    ELSE {b \o "\n" \o RealmLines[k] : b \in RealmBodiesOf(n - 1), k \in DOMAIN RealmLines}

RealmTexts == UNION {RealmBodiesOf(n) : n \in 1..MaxRealmLines}

InitRealm ==
    /\ text \in RealmTexts
    /\ parsed = NotParsed
    /\ realm = PristineRealm
    /\ settings = PlainSettings
    /\ camera = CameraFor(settings, FALSE, "admin", "pw", {})
    /\ clients = Construct(settings)
    /\ calls = [i \in CallIds |-> Idle]
    /\ storage = NoStorage
    /\ page = NoPage
    /\ preview = NoPreview
    /\ ptz = NoPtz
    /\ overlay = NoOverlay

\* the next response arrives in the same page
NextText ==
    /\ parsed.done
    /\ text' \in RealmTexts
    /\ parsed' = NotParsed
    /\ UNCHANGED <<preview, ptz, overlay, storage, page, realm, settings, camera, clients, calls>>

NextRealm == Parse \/ NextText

SpecRealm == InitRealm /\ [][NextRealm]_vars

\* C15: parsing is deterministic and stateless: the outcome for a text is
\* the one a page gets that has parsed nothing before, whatever texts were
\* parsed before it, the same text included.
ParseIgnoresHistory ==
    parsed.done => SameOutcome(parseKeyValueResponse(text))

\* a text was parsed in a page whose Object.prototype an earlier text had
\* given the property x
ParsedAfterPollution ==
    /\ parsed.done
    /\ text = "x.y=2"
    /\ Append(ObjectPrototype, "x") \in DOMAIN realm

(***************************************************************************)
(* Properties of the client's methods, continued (under Spec).             *)
(***************************************************************************)
SingleKeyGetters == {"getDeviceType", "getSerialNumber", "getHardwareVersion"}

\* the key each single-key getter reads
KeyRead(g) ==
    CASE g = "getDeviceType" -> "type"
      [] g = "getSerialNumber" -> "sn"
      [] g = "getHardwareVersion" -> "version"

\* the body is the one line <key>=<S> with S non-empty
IsKeyLine(body, key) ==
    /\ startsWith(body, key \o "=")
    /\ ~includes(body, "\n")
    /\ Len(body) > Len(key) + 1

\* C16: getDeviceType, getSerialNumber and getHardwareVersion resolve to null
\* or to a string, and for every successful response whose body is
\* <key>=<S> with S non-empty the getter resolves to the string S.
GettersResolveToSentText ==
    \A i \in CallIds : \A g \in DOMAIN calls[i].subs :
        (calls[i].subs[g].pc = "settled" /\ g \in SingleKeyGetters) =>
            /\ ~calls[i].subs[g].out.threw
            /\ calls[i].subs[g].out.value.t \in {"null", "string"}
            /\ (/\ ResponseOk(calls[i].subs[g].resp)
                /\ IsKeyLine(calls[i].subs[g].resp.body, KeyRead(g))) =>
                  calls[i].subs[g].out.value =
                      JsStr(substring(calls[i].subs[g].resp.body, Len(KeyRead(g)) + 1,
                                      Len(calls[i].subs[g].resp.body)))

\* getDeviceType resolved to the text sent after type=, and getHardwareVersion
\* has answered a body whose version looks like a decimal
GettersAnswered ==
    /\ \E i \in Returned("getDeviceType") :
          /\ ResponseOf(i, "getDeviceType").body = IdentityBody
          /\ calls[i].result.value = JsStr("IPC-HX")
    /\ \E i \in Returned("getHardwareVersion") :
          ResponseOf(i, "getHardwareVersion").body = IdentityBody

(***************************************************************************)
(* Properties of extractSimpleValues, under SpecParse.                     *)
(***************************************************************************)
\* the key extractSimpleValues gives a path of the mapping
FlatKey(p) ==
    IF parsed.prefix # "" THEN parsed.prefix \o "." \o JoinWith(p, ".")
    ELSE JoinWith(p, ".")

\* the paths below the root with no ordered sequence above them
OutsideSequences ==
    {p \in DOMAIN parsed.value \ {<<>>} :
        \A k \in 0..(Len(p) - 1) : parsed.value[SubSeq(p, 1, k)].t # "array"}

\* the leaves: the primitive values outside any ordered sequence
PrimitiveLeaves == {p \in OutsideSequences : ~IsObjectNode(parsed.value[p])}

\* the ordered sequences not inside another one
OuterSequences == {p \in OutsideSequences : parsed.value[p].t = "array"}

\* C17, as stated: the flat mapping has exactly one entry per leaf, keyed by
\* the dot-joined path (after the prefix) and valued by the string form; an
\* ordered sequence is not recursed into and counts as one leaf value.
FlatHoldsLeavesAndSequences ==
    parsed.extracted =>
        /\ DOMAIN parsed.simple = {FlatKey(p) : p \in PrimitiveLeaves \cup OuterSequences}
        /\ \A p \in PrimitiveLeaves : parsed.simple[FlatKey(p)] = String(parsed.value[p])

\* C17, amended: the flat mapping has exactly one entry per primitive leaf
\* outside any ordered sequence, keyed by the dot-joined path (after the
\* prefix) and valued by the string form; an ordered sequence is neither
\* recursed into nor given an entry.
FlatHoldsLeavesOutsideSequences ==
    parsed.extracted =>
        /\ DOMAIN parsed.simple = {FlatKey(p) : p \in PrimitiveLeaves}
        /\ \A p \in PrimitiveLeaves : parsed.simple[FlatKey(p)] = String(parsed.value[p])

\* a mapping holding a nested number, a sequence and a decimal was flattened
\* under a prefix
FlattenedBesideSequence ==
    /\ parsed.extracted
    /\ text = "a.b.c=3\nb[1].c=0.5\nc=-07.10"
    /\ parsed.prefix = "info"
    /\ parsed.simple = ("info.a.b.c" :> "3" @@ "info.c" :> "-7.1")

\* C18, as stated: setConfig's success check is case-insensitive: it
\* resolves to true for every 2xx response text that contains "ok" in any
\* letter case.
SetConfigTrueOnAnyCase ==
    \A i \in Returned("setConfig") :
        (/\ ResponseOk(ResponseOf(i, "setConfig"))
         /\ includes(toLowerCase(ResponseOf(i, "setConfig").body), "ok")) =>
            calls[i].result = Ret(JsBool(TRUE))

\* C18, amended: the check is case-sensitive on two spellings: for a 2xx
\* response setConfig resolves to true when the text contains "OK" or "ok",
\* and to false when it contains neither, "Ok" and "oK" included.
SetConfigTrueOnTwoSpellings ==
    \A i \in Returned("setConfig") :
        ResponseOk(ResponseOf(i, "setConfig")) =>
            IF \E spelling \in {"OK", "ok"} :
                   includes(ResponseOf(i, "setConfig").body, spelling)
            THEN calls[i].result = Ret(JsBool(TRUE))
            ELSE calls[i].result = Ret(JsBool(FALSE))

\* one setConfig returned true from "OK", another false from "Ok"
SetConfigSawBothSpellings ==
    /\ \E i \in Returned("setConfig") :
          /\ ResponseOf(i, "setConfig") = HttpResponse(200, "text/plain", "OK")
          /\ calls[i].result = Ret(JsBool(TRUE))
    /\ \E i \in Returned("setConfig") :
          /\ ResponseOf(i, "setConfig") = HttpResponse(200, "text/plain", "Ok")
          /\ calls[i].result = Ret(JsBool(FALSE))

\* C19, as stated: both configuration operations raise to the caller when
\* the request fails at transport level or with a non-2xx status.
ConfigOperationsRaiseOnFailure ==
    \A op \in {"getConfig", "setConfig"} : \A i \in Returned(op) :
        ~ResponseOk(ResponseOf(i, op)) => calls[i].result.threw

\* C19, amended: on such a failure getConfig raises to the caller, while
\* setConfig never raises and resolves to false.
OnlyGetConfigRaisesOnFailure ==
    /\ \A i \in Returned("getConfig") :
          ~ResponseOk(ResponseOf(i, "getConfig")) => calls[i].result.threw
    /\ \A i \in Returned("setConfig") :
          /\ ~calls[i].result.threw
          /\ ~ResponseOk(ResponseOf(i, "setConfig")) =>
                calls[i].result.value = JsBool(FALSE)

\* a getConfig and a setConfig have both met a failed request
ConfigOperationsFailed ==
    /\ \E i \in Returned("getConfig") :
          ResponseOf(i, "getConfig").kind = "fail" /\ calls[i].result.threw
    /\ \E i \in Returned("setConfig") :
          ResponseOf(i, "setConfig").status = 500 /\ ~calls[i].result.threw

(***************************************************************************)
(* crypto.ts and the persistence of useCamera.ts.  Encryption is symbolic: *)
(* a sealed value shows its salt and iv, and yields its content only to    *)
(* the key derived from the same password and salt.                        *)
(***************************************************************************)
LegacyKey == "camera-connection-settings"
EncryptedKey == "camera-connection-settings-encrypted"
DebugKey == "camera-debug-enabled"

\* crypto.getRandomValues
Salts == {"salt1", "salt2"}
IVs == {"iv1", "iv2"}

deriveKey(password, salt) == [password |-> password, salt |-> salt]

\* the settings that are encrypted: every field but the password
Encryptable(s) ==
    [host |-> s.host, port |-> s.port, username |-> s.username,
     secure |-> s.secure, debugEnabled |-> s.debugEnabled]

\* the payload encryptSettings returns when nothing throws
encryptSettings(s, password, salt, iv) ==
    [kind |-> "sealed", salt |-> salt, iv |-> iv,
     key |-> deriveKey(password, salt), content |-> Encryptable(s)]

\* the entry an earlier version of the page wrote: the settings as they are
LegacyEntry(s) == [kind |-> "plain", content |-> s]

TextEntry(v) == [kind |-> "text", content |-> v]

setItem(store, key, value) == (key :> value) @@ store

removeItem(store, key) == [k \in DOMAIN store \ {key} |-> store[k]]

Passwords == {"pw", "s3cret"}

SessionSettings ==
    {[host |-> "cam", port |-> 8080, secure |-> FALSE, username |-> "admin",
      password |-> p, debugEnabled |-> d] : p \in Passwords, d \in BOOLEAN}

SessionReplies ==
    {TransportFailure,
     HttpResponse(200, "text/plain", IdentityBody),
     HttpResponse(200, "text/plain", "type=0")}

\* what getSystemInfo() of the client resolves to when the camera answers
\* its four requests as beh
InfoFrom(beh) == getSystemInfo([g \in InfoGetters |-> OpReturn(g, beh)]).value.v

SessionInfos == {InfoFrom(beh) : beh \in SessionReplies}

\* connect(settings) up to its first await
ConnectCall(c, s) ==
    /\ page.connects[c].pc = "idle"
    /\ settings' = s
    /\ storage' = IF s.debugEnabled THEN setItem(storage, DebugKey, TextEntry("true"))
                  ELSE removeItem(storage, DebugKey)
    /\ page' = [page EXCEPT !.client = TRUE, !.connectionState = "connecting",
                            !.errorMessage = "", !.latest = c,
                            !.connects[c] = [NoConnect EXCEPT !.pc = "testing", !.s = s]]
    /\ UNCHANGED <<preview, ptz, overlay, text, parsed, realm, camera, clients, calls>>

\* connect with a catch block that returns false and sets no state
ConnectTestedLeavingState(c, beh) ==
    /\ page.connects[c].pc = "testing"
    /\ IF testConnection(getDeviceType(beh)).value = JsBool(TRUE)
       THEN page' = [page EXCEPT !.connectionState = "connected",
                                 !.connects[c].pc = "refreshing",
                                 !.connects[c].sent = page.client]
       ELSE page' = [page EXCEPT !.connects[c] = [NoConnect EXCEPT !.returned = "false"]]
    /\ UNCHANGED <<preview, ptz, overlay, text, parsed, realm, settings, camera, clients, calls, storage>>

\* testConnection() settles: on to refreshSystemInfo up to its await (it
\* returns at once when client is null), or the throw and the catch block
ConnectTested(c, beh) ==
    /\ page.connects[c].pc = "testing"
    /\ IF testConnection(getDeviceType(beh)).value = JsBool(TRUE)
       THEN page' = [page EXCEPT !.connectionState = "connected",
                                 !.connects[c].pc = "refreshing",
                                 !.connects[c].sent = page.client]
       ELSE page' = [page EXCEPT !.connectionState = "error",
                                 !.errorMessage = "Connection test failed",
                                 !.connects[c] = [NoConnect EXCEPT !.returned = "false"]]
    /\ UNCHANGED <<preview, ptz, overlay, text, parsed, realm, settings, camera, clients, calls, storage>>

\* refreshSystemInfo() settles: getSystemInfo() has resolved to info and it is
\* assigned, or nothing was requested
ConnectRefreshed(c, info) ==
    /\ page.connects[c].pc = "refreshing"
    /\ page' = [page EXCEPT !.systemInfo = IF page.connects[c].sent THEN info ELSE @,
                            !.connects[c].pc = "encrypting",
                            !.connects[c].sent = FALSE]
    /\ UNCHANGED <<preview, ptz, overlay, text, parsed, realm, settings, camera, clients, calls, storage>>

\* the inner try block: encryptSettings, setItem, removeItem; when
\* encryptSettings or setItem throws (no crypto.subtle outside a secure
\* context, storage quota) the catch block logs and connect returns true
ConnectSaved(c, threw, salt, iv) ==
    /\ page.connects[c].pc = "encrypting"
    /\ storage' =
          IF threw THEN storage
          ELSE LET s == page.connects[c].s
               IN  removeItem(setItem(storage, EncryptedKey,
                                      encryptSettings(s, s.password, salt, iv)),
                              LegacyKey)
    /\ page' = [page EXCEPT !.connects[c] = [NoConnect EXCEPT !.returned = "true"]]
    /\ UNCHANGED <<preview, ptz, overlay, text, parsed, realm, settings, camera, clients, calls>>

disconnect ==
    /\ page' = [page EXCEPT !.client = FALSE, !.connectionState = "disconnected",
                            !.systemInfo = NoInfo, !.errorMessage = ""]
    /\ UNCHANGED <<preview, ptz, overlay, text, parsed, realm, settings, camera, clients, calls, storage>>

clearSavedSettings ==
    /\ storage' = removeItem(removeItem(removeItem(storage, LegacyKey), EncryptedKey),
                             DebugKey)
    /\ UNCHANGED <<preview, ptz, overlay, text, parsed, realm, settings, camera, clients, calls, page>>

\* the page is loaded with a localStorage that is empty or holds the
\* plaintext entry of an earlier version
InitSession ==
    /\ text = ""
    /\ parsed = NotParsed
    /\ realm = PristineRealm
    /\ settings \in SessionSettings
    /\ camera = CameraFor(settings, FALSE, "admin", settings.password, SessionReplies)
    /\ clients = Construct(settings)
    /\ calls = [i \in CallIds |-> Idle]
    /\ storage \in {NoStorage, setItem(NoStorage, LegacyKey, LegacyEntry(settings))}
    /\ page = NoPage
    /\ preview = NoPreview
    /\ ptz = NoPtz
    /\ overlay = NoOverlay

NextSession ==
    \/ \E c \in ConnectIds, s \in SessionSettings : ConnectCall(c, s)
    \/ \E c \in ConnectIds, beh \in SessionReplies : ConnectTested(c, beh)
    \/ \E c \in ConnectIds, info \in SessionInfos : ConnectRefreshed(c, info)
    \/ \E c \in ConnectIds, threw \in BOOLEAN, salt \in Salts, iv \in IVs :
          ConnectSaved(c, threw, salt, iv)
    \/ disconnect
    \/ clearSavedSettings

SpecSession == InitSession /\ [][NextSession]_vars

\* what an entry shows to a reader of localStorage who holds no key
Readable(entry) ==
    CASE entry.kind = "sealed" -> {entry.salt, entry.iv}
      [] entry.kind = "text" -> {entry.content}
      [] OTHER -> {}

\* the entry holds the password: readable as it is, or as a field of the
\* content, sealed or not
HoldsPassword(entry) ==
    \/ Readable(entry) \cap Passwords # {}
    \/ /\ entry.kind \in {"sealed", "plain"}
       /\ \/ "password" \in DOMAIN entry.content
          \/ \E f \in DOMAIN entry.content \cap {"host", "username"} :
                entry.content[f] \in Passwords

\* the keys this version of the page writes
SessionKeys == {EncryptedKey, DebugKey}

\* no entry the session wrote holds the password
NoWrittenEntryHoldsPassword ==
    \A k \in DOMAIN storage \cap SessionKeys : ~HoldsPassword(storage[k])

\* C20: the password is never persisted: after any sequence of connect,
\* disconnect and clearSavedSettings calls no localStorage entry written by
\* the session contains the password, in cleartext or inside the encrypted
\* blob, and once a connect has returned true the legacy plaintext settings
\* entry is gone.
PasswordNeverPersisted ==
    /\ NoWrittenEntryHoldsPassword
    /\ (\E c \in ConnectIds : page.connects[c].returned = "true") =>
          LegacyKey \notin DOMAIN storage

\* a connect has returned true with the settings saved encrypted
ConnectedAndSaved ==
    /\ \E c \in ConnectIds : page.connects[c].returned = "true"
    /\ EncryptedKey \in DOMAIN storage
    /\ storage[EncryptedKey].key.password = settings.password

(***************************************************************************)
(* The query string of setConfig.                                          *)
(***************************************************************************)
\* the requests issued by setConfig calls
SetConfigRequests ==
    {calls[i].subs["setConfig"].req : i \in {j \in CallIds : calls[j].op = "setConfig"}}

\* C22: every request issued by setConfig carries action=setConfig in its
\* query string, whatever the params mapping, one holding a key `action`
\* included.
SetConfigCarriesItsAction ==
    \A req \in SetConfigRequests : includes(req.url, "action=setConfig")

\* a setConfig request was issued for params without a key `action`
SetConfigIssued ==
    \E req \in SetConfigRequests : includes(req.url, "?action=setConfig&ChannelTitle")

(***************************************************************************)
(* The session under overlapping connect and disconnect calls.             *)
(***************************************************************************)
Pending(c) == page.connects[c].pc # "idle"

\* C23: connectionState is 'connected' only while a client instance exists,
\* under any interleaving of connect and disconnect calls, a disconnect
\* issued while a connect awaits its connection test included.
ConnectedHoldsClient == page.connectionState = "connected" => page.client

\* a connect has gone through with no disconnect in between
ConnectedWithClient ==
    /\ page.connectionState = "connected"
    /\ page.client
    /\ \E c \in ConnectIds : page.connects[c].returned = "true"

\* what connect sets before it returns `returned`
StateSetBy(returned) == IF returned = "true" THEN "connected" ELSE "error"

MessageSetBy(returned) == IF returned = "true" THEN "" ELSE "Connection test failed"

\* C24: when several connect calls overlap, once all of them have settled
\* connectionState and errorMessage are those of the most recently issued
\* connect, whatever order the connection tests complete in (no disconnect
\* having reset them).
LatestConnectDecides ==
    (/\ page.latest # 0
     /\ \A c \in ConnectIds : ~Pending(c)
     /\ page.connectionState # "disconnected") =>
        /\ page.connectionState = StateSetBy(page.connects[page.latest].returned)
        /\ page.errorMessage = MessageSetBy(page.connects[page.latest].returned)

\* two overlapping connects have settled with different results
OverlappingConnectsSettled ==
    /\ \A c \in ConnectIds : ~Pending(c)
    /\ \E c, d \in ConnectIds :
          /\ page.connects[c].returned = "true"
          /\ page.connects[d].returned = "false"

\* every field of the mapping is undefined
IsEmptyInfo(info) == \A f \in DOMAIN info : info[f] = Undefined

\* C26: whenever connectionState is 'disconnected' systemInfo is empty: a
\* refresh in flight when disconnect was called does not repopulate it.
DisconnectedHasNoSystemInfo ==
    page.connectionState = "disconnected" => IsEmptyInfo(page.systemInfo)

\* disconnect has cleared a systemInfo that a refresh had filled
SystemInfoCleared ==
    /\ page.connectionState = "disconnected"
    /\ page.systemInfo = NoInfo
    /\ \E c \in ConnectIds : page.connects[c].returned = "true"

\* the steps of connect call c after its awaits: its requests and the
\* encryption settle
ConnectSteps(c) ==
    \/ \E beh \in SessionReplies : ConnectTested(c, beh)
    \/ \E info \in SessionInfos : ConnectRefreshed(c, info)
    \/ \E threw \in BOOLEAN, salt \in Salts, iv \in IVs : ConnectSaved(c, threw, salt, iv)

\* one user, one salt: the connect calls of a session whose localStorage
\* starts empty
ConnectSettings == {s \in SessionSettings : s.password = "pw" /\ ~s.debugEnabled}

InitConnect ==
    /\ text = ""
    /\ parsed = NotParsed
    /\ realm = PristineRealm
    /\ settings \in ConnectSettings
    /\ camera = CameraFor(settings, FALSE, "admin", settings.password, SessionReplies)
    /\ clients = Construct(settings)
    /\ calls = [i \in CallIds |-> Idle]
    /\ storage = NoStorage
    /\ page = NoPage
    /\ preview = NoPreview
    /\ ptz = NoPtz
    /\ overlay = NoOverlay

NextConnect ==
    \/ \E c \in ConnectIds, s \in ConnectSettings : ConnectCall(c, s)
    \/ \E c \in ConnectIds, beh \in SessionReplies : ConnectTested(c, beh)
    \/ \E c \in ConnectIds, info \in SessionInfos : ConnectRefreshed(c, info)
    \/ \E c \in ConnectIds, threw \in BOOLEAN : ConnectSaved(c, threw, "salt1", "iv1")
    \/ disconnect

\* the session where every request and every promise a connect call awaits
\* settles and its continuation runs
SpecConnect ==
    InitConnect /\ [][NextConnect]_vars /\ \A c \in ConnectIds : WF_vars(ConnectSteps(c))

\* connect call c leaves its connection test or returns
TestSettles(c) == page.connects[c].pc = "testing" /\ page'.connects[c].pc # "testing"

Returns(c) == Pending(c) /\ page'.connects[c].pc = "idle"

\* C27: connectionState is 'connecting' only while a connect call is in
\* flight: every connect call sets connectionState to 'connected' or 'error'
\* when its test settles and, every request settling, returns a boolean.
ConnectingOnlyWhilePending ==
    /\ [](page.connectionState = "connecting" => \E c \in ConnectIds : Pending(c))
    /\ [][\A c \in ConnectIds :
            /\ TestSettles(c) => page'.connectionState \in {"connected", "error"}
            /\ Returns(c) => page'.connects[c].returned \in {"true", "false"}]_vars
    /\ \A c \in ConnectIds : Pending(c) ~> ~Pending(c)

\* a connect has failed and left the state 'error' with nothing pending
ConnectFailedAndSettled ==
    /\ page.connectionState = "error"
    /\ \A c \in ConnectIds : ~Pending(c)
    /\ \E c \in ConnectIds : page.connects[c].returned = "false"

(***************************************************************************)
(* The live preview: polling timers, snapshot fetches and blob URLs.       *)
(***************************************************************************)
\* the most snapshot fetches issued, and the most timers created, in a run
MaxFetches == 3
MaxTimers == 3

\* the rates of the rate buttons, in milliseconds
PollRates == {500, 1000, 2000}

PreviewReplies == {TransportFailure, HttpResponse(200, "image/jpeg", "jpeg")}

isConnected == page.connectionState = "connected"

\* fetchSnapshot up to its await: the fetch joins the fetches issued; `sent`
\* is whether useCamera's getSnapshot found a client to ask
fetchSnapshot(pv) ==
    IF ~isConnected THEN [pv EXCEPT !.error = "Not connected to camera"]
    ELSE [pv EXCEPT !.error = "",
                    !.fetches = Append(@, [pc |-> "flying", sent |-> page.client])]

\* URL.revokeObjectURL
revokeObjectURL(urls, url) ==
    [u \in DOMAIN urls |-> IF u = url THEN [urls[u] EXCEPT !.revoked = TRUE] ELSE urls[u]]

\* fetchSnapshot after its await, for fetch f resolved to blob: the URL created
\* is the next one, and it holds the snapshot of fetch f
fetchSnapshotSettled(pv, f, blob) ==
    IF Truthy(blob)
    THEN LET url == Len(pv.urls) + 1
             kept == IF pv.previousBlobUrl # 0
                     THEN revokeObjectURL(pv.urls, pv.previousBlobUrl)
                     ELSE pv.urls
         IN  [pv EXCEPT !.urls = Append(kept, [of |-> f, revoked |-> FALSE]),
                        !.imageUrl = url,
                        !.previousBlobUrl = url,
                        !.isLoading = FALSE,
                        !.fetches[f].pc = "shown"]
    ELSE [pv EXCEPT !.error = "No snapshot data received",
                    !.isLoading = FALSE,
                    !.fetches[f].pc = "failed"]

startRefresh(pv) ==
    IF pv.pollInterval # 0 THEN pv
    ELSE LET fetching == fetchSnapshot([pv EXCEPT !.isRefreshing = TRUE])
             id == pv.created + 1
         IN  [fetching EXCEPT !.created = id,
                              !.pollInterval = id,
                              !.timers = @ \cup {[id |-> id, rate |-> pv.refreshRate]}]

stopRefresh(pv) ==
    [pv EXCEPT !.timers = {t \in @ : t.id # pv.pollInterval},
               !.pollInterval = 0,
               !.isRefreshing = FALSE]

changeRefreshRate(pv, rate) ==
    LET rated == [pv EXCEPT !.refreshRate = rate]
    IN  IF pv.isRefreshing THEN startRefresh(stopRefresh(rated)) ELSE rated

\* the bounds leave room for whatever a handler may issue
CanFetch == ~isConnected \/ Len(preview.fetches) < MaxFetches

CanStart == CanFetch /\ preview.created < MaxTimers

\* onMounted
Mount ==
    /\ preview.phase = "setup"
    /\ CanStart
    /\ preview' = [(IF isConnected THEN startRefresh(preview) ELSE preview)
                      EXCEPT !.phase = "mounted"]
    /\ UNCHANGED <<text, parsed, realm, settings, camera, clients, calls, storage, page,
                   ptz, overlay>>

\* the Pause/Play button
ClickToggle ==
    /\ preview.phase = "mounted"
    /\ CanStart
    /\ preview' = IF preview.isRefreshing THEN stopRefresh(preview)
                  ELSE startRefresh(preview)
    /\ UNCHANGED <<text, parsed, realm, settings, camera, clients, calls, storage, page,
                   ptz, overlay>>

\* a rate button
ClickRate(rate) ==
    /\ preview.phase = "mounted"
    /\ CanStart
    /\ preview' = changeRefreshRate(preview, rate)
    /\ UNCHANGED <<text, parsed, realm, settings, camera, clients, calls, storage, page,
                   ptz, overlay>>

\* the Refresh button (disabled while refreshing) and the Retry button (shown
\* with an error once loading is over)
ClickFetch ==
    /\ preview.phase = "mounted"
    /\ ~preview.isRefreshing \/ (~preview.isLoading /\ preview.error # "")
    /\ CanFetch
    /\ preview' = fetchSnapshot(preview)
    /\ UNCHANGED <<text, parsed, realm, settings, camera, clients, calls, storage, page,
                   ptz, overlay>>

\* a timer fires
Tick(t) ==
    /\ t \in preview.timers
    /\ CanFetch
    /\ preview' = fetchSnapshot(preview)
    /\ UNCHANGED <<text, parsed, realm, settings, camera, clients, calls, storage, page,
                   ptz, overlay>>

\* getSnapshot(1) of fetch f resolves: to null with no client, else to what the
\* client makes of the response
FetchSettles(f, resp) ==
    /\ f \in DOMAIN preview.fetches
    /\ preview.fetches[f].pc = "flying"
    /\ LET blob == IF preview.fetches[f].sent THEN getSnapshot(resp).value ELSE Null
       IN  preview' = fetchSnapshotSettled(preview, f, blob)
    /\ UNCHANGED <<text, parsed, realm, settings, camera, clients, calls, storage, page,
                   ptz, overlay>>

\* onBeforeUnmount
Unmount ==
    /\ preview.phase = "mounted"
    /\ LET stopped == stopRefresh(preview)
       IN  preview' = [stopped EXCEPT
                          !.phase = "unmounted",
                          !.urls = IF stopped.previousBlobUrl # 0
                                   THEN revokeObjectURL(@, stopped.previousBlobUrl)
                                   ELSE @]
    /\ UNCHANGED <<text, parsed, realm, settings, camera, clients, calls, storage, page,
                   ptz, overlay>>

\* the session the component is set up in: connected, or not
ConnectedPage == [NoPage EXCEPT !.client = TRUE, !.connectionState = "connected"]

InitPreview ==
    /\ text = ""
    /\ parsed = NotParsed
    /\ realm = PristineRealm
    /\ settings = PlainSettings
    /\ camera = CameraFor(settings, FALSE, "admin", "pw", PreviewReplies)
    /\ clients = Construct(settings)
    /\ calls = [i \in CallIds |-> Idle]
    /\ storage = NoStorage
    /\ page \in {NoPage, ConnectedPage}
    /\ preview = NoPreview
    /\ ptz = NoPtz
    /\ overlay = NoOverlay

NextPreview ==
    \/ Mount
    \/ ClickToggle
    \/ \E rate \in PollRates : ClickRate(rate)
    \/ ClickFetch
    \/ \E t \in preview.timers : Tick(t)
    \/ \E f \in 1..MaxFetches, resp \in PreviewReplies : FetchSettles(f, resp)
    \/ Unmount
    \/ disconnect

SpecPreview == InitPreview /\ [][NextPreview]_vars

\* the fetches that have completed with a snapshot
Shown == {f \in DOMAIN preview.fetches : preview.fetches[f].pc = "shown"}

\* C21: with overlapping snapshot fetches the displayed snapshot is that of
\* the most recently issued request among those that have completed: a
\* response to an earlier request never replaces the image of a later one.
DisplayedIsLatestIssued ==
    preview.imageUrl # 0 =>
        \A f \in Shown : f <= preview.urls[preview.imageUrl].of

\* two fetches overlapped and both have completed with a snapshot
OverlappingFetchesShown ==
    /\ Cardinality(Shown) >= 2
    /\ preview.imageUrl # 0

Unrevoked == {u \in DOMAIN preview.urls : ~preview.urls[u].revoked}

Flying == {f \in DOMAIN preview.fetches : preview.fetches[f].pc = "flying"}

\* C28: the live preview leaks no blob URL: at most one URL it created is
\* un-revoked at any moment, and once it has unmounted and every fetch in
\* flight has settled, every URL it created has been revoked.
NoBlobUrlLeaks ==
    /\ Cardinality(Unrevoked) <= 1
    /\ (preview.phase = "unmounted" /\ Flying = {}) => Unrevoked = {}

\* the component has unmounted with its blob URLs revoked
UnmountedAndRevoked ==
    /\ preview.phase = "unmounted"
    /\ Flying = {}
    /\ preview.urls # <<>>
    /\ Unrevoked = {}

\* C29: from mount to unmount the number of active polling timers is 1 when
\* isRefreshing is true and 0 when it is false, and the active timer runs at
\* the rate last chosen.
OneTimerWhileRefreshing ==
    preview.phase = "mounted" =>
        /\ Cardinality(preview.timers) = (IF preview.isRefreshing THEN 1 ELSE 0)
        /\ \A t \in preview.timers : t.rate = preview.refreshRate

\* the rate was changed while polling and one timer runs at the new rate
PollingAtNewRate ==
    /\ preview.phase = "mounted"
    /\ preview.isRefreshing
    /\ preview.refreshRate = 500
    /\ preview.created >= 2
    /\ \E t \in preview.timers : t.rate = 500

(***************************************************************************)
(* The PTZ page: movements started and stopped with the mouse.             *)
(***************************************************************************)
\* the most PTZ requests sent in a run
MaxPtzRequests == 4

\* two of the movement buttons
PtzCodes == {"Up", "Down"}

CanSend == Len(ptz.reqs) < MaxPtzRequests

\* ptzStart / ptzStop / ptzSetPreset of useCamera up to the await: the request
\* goes out when there is a client (by: the handler whose continuation waits
\* for it; released: the button of a start request has been released since)
PtzRequest(pz, by, action, code) ==
    IF page.client
    THEN [pz EXCEPT !.reqs = Append(@, [by |-> by, action |-> action, code |-> code,
                                        pc |-> "flying", released |-> FALSE])]
    ELSE pz

\* startMove(code) up to its await
startMove(pz, code) ==
    IF ~isConnected \/ pz.isMoving THEN pz
    ELSE PtzRequest([pz EXCEPT !.activeMovement = code], "startMove", "start", code)

\* stopMove(code) up to its await
stopMove(pz, code) ==
    IF ~isConnected \/ pz.activeMovement # code THEN pz
    ELSE PtzRequest(pz, "stopMove", "stop", code)

\* the button of code has been released: noted on its start requests
Release(pz, code) ==
    [pz EXCEPT !.reqs = [i \in DOMAIN @ |->
                            IF @[i].action = "start" /\ @[i].code = code
                            THEN [@[i] EXCEPT !.released = TRUE] ELSE @[i]]]

\* mousedown on the button of code
MouseDown(code) ==
    /\ ptz.phase = "mounted"
    /\ ~ptz.down
    /\ ptz.over \in {"", code}
    /\ CanSend
    /\ ptz' = startMove([ptz EXCEPT !.over = code, !.down = TRUE], code)
    /\ UNCHANGED <<text, parsed, realm, settings, camera, clients, calls, storage, page,
                   preview, overlay>>

\* mouseup on the button the mouse went down on
MouseUp ==
    /\ ptz.phase = "mounted"
    /\ ptz.down
    /\ CanSend
    /\ ptz' = Release(stopMove([ptz EXCEPT !.down = FALSE], ptz.over), ptz.over)
    /\ UNCHANGED <<text, parsed, realm, settings, camera, clients, calls, storage, page,
                   preview, overlay>>

\* mouseleave: the pointer leaves the button it is over, pressed or not
MouseLeave ==
    /\ ptz.phase = "mounted"
    /\ ptz.over # ""
    /\ CanSend
    /\ LET left == stopMove([ptz EXCEPT !.over = "", !.down = FALSE], ptz.over)
       IN  ptz' = IF ptz.down THEN Release(left, ptz.over) ELSE left
    /\ UNCHANGED <<text, parsed, realm, settings, camera, clients, calls, storage, page,
                   preview, overlay>>

\* setPreset(presetNumber) up to its await
ClickSetPreset ==
    /\ ptz.phase = "mounted"
    /\ ~ptz.isMoving
    /\ CanSend
    /\ ptz' = IF ~isConnected THEN ptz
              ELSE PtzRequest([ptz EXCEPT !.isMoving = TRUE], "setPreset", "start",
                              "SetPreset")
    /\ UNCHANGED <<text, parsed, realm, settings, camera, clients, calls, storage, page,
                   preview, overlay>>

\* request i settles and the handler that awaited it goes on: stopMove clears
\* activeMovement, setPreset clears isMoving, startMove only logs
PtzSettles(i) ==
    /\ i \in DOMAIN ptz.reqs
    /\ ptz.reqs[i].pc = "flying"
    /\ ptz' = [ptz EXCEPT
                  !.reqs[i].pc = "done",
                  !.activeMovement = IF ptz.reqs[i].by = "stopMove" THEN "" ELSE @,
                  !.isMoving = IF ptz.reqs[i].by = "setPreset" THEN FALSE ELSE @]
    /\ UNCHANGED <<text, parsed, realm, settings, camera, clients, calls, storage, page,
                   preview, overlay>>

\* onUnmounted
PtzUnmount ==
    /\ ptz.phase = "mounted"
    /\ CanSend
    /\ ptz' = [(IF ptz.activeMovement # ""
                THEN PtzRequest(ptz, "unmount", "stop", ptz.activeMovement)
                ELSE ptz) EXCEPT !.phase = "unmounted"]
    /\ UNCHANGED <<text, parsed, realm, settings, camera, clients, calls, storage, page,
                   preview, overlay>>

InitPtz ==
    /\ text = ""
    /\ parsed = NotParsed
    /\ realm = PristineRealm
    /\ settings = PlainSettings
    /\ camera = CameraFor(settings, FALSE, "admin", "pw", AllReplies)
    /\ clients = Construct(settings)
    /\ calls = [i \in CallIds |-> Idle]
    /\ storage = NoStorage
    /\ page = ConnectedPage
    /\ preview = NoPreview
    /\ ptz = NoPtz
    /\ overlay = NoOverlay

NextPtz ==
    \/ \E code \in PtzCodes : MouseDown(code)
    \/ MouseUp
    \/ MouseLeave
    \/ ClickSetPreset
    \/ \E i \in 1..MaxPtzRequests : PtzSettles(i)
    \/ PtzUnmount

\* the PTZ page of a connected session, every request settling
SpecPtz ==
    InitPtz /\ [][NextPtz]_vars /\ WF_vars(\E i \in 1..MaxPtzRequests : PtzSettles(i))

\* request i is a start request of startMove
IsMoveStart(i) ==
    /\ i \in DOMAIN ptz.reqs
    /\ ptz.reqs[i].by = "startMove"

\* the stop requests for the movement of start request i sent after it
StopsAfter(i) ==
    {j \in DOMAIN ptz.reqs :
        j > i /\ ptz.reqs[j].action = "stop" /\ ptz.reqs[j].code = ptz.reqs[i].code}

\* activeMovement names nothing but a movement started and not yet stopped
\* (no stop request for it has settled), and it names every movement started
\* for which no stop request has been sent
ActiveIsStarted ==
    /\ ptz.activeMovement # "" =>
          \E i \in DOMAIN ptz.reqs :
              /\ IsMoveStart(i)
              /\ ptz.reqs[i].code = ptz.activeMovement
              /\ \A j \in StopsAfter(i) : ptz.reqs[j].pc = "flying"
    /\ \A i \in DOMAIN ptz.reqs :
          (IsMoveStart(i) /\ StopsAfter(i) = {}) => ptz.activeMovement = ptz.reqs[i].code

\* C25: every started movement gets stopped: each start request sent by
\* startMove(code) is followed, once that button has been released, by a stop
\* request for the same code, and activeMovement names a code exactly while
\* that movement has been started and not yet stopped.
StartedMovementsGetStopped ==
    /\ \A i \in 1..MaxPtzRequests :
          (IsMoveStart(i) /\ ptz.reqs[i].released) ~> (IsMoveStart(i) /\ StopsAfter(i) # {})
    /\ [](ptz.phase = "mounted" => ActiveIsStarted)

\* a movement was started, its button released and its stop request answered
MovementStopped ==
    /\ ptz.activeMovement = ""
    /\ \E i \in DOMAIN ptz.reqs :
          /\ IsMoveStart(i)
          /\ ptz.reqs[i].released
          /\ \E j \in StopsAfter(i) : ptz.reqs[j].pc = "done"

(***************************************************************************)
(* The overlay settings: what a save sends and what it leaves behind.      *)
(***************************************************************************)
positionPresets ==
    [p \in {"top-left", "top-center", "top-right",
            "bottom-left", "bottom-center", "bottom-right"} |->
        CASE p = "top-left" -> <<256, 352, 2048, 769>>
          [] p = "top-center" -> <<3072, 352, 5120, 769>>
          [] p = "top-right" -> <<6144, 352, 7936, 769>>
          [] p = "bottom-left" -> <<256, 7424, 2048, 7936>>
          [] p = "bottom-center" -> <<3072, 7424, 5120, 7936>>
          [] p = "bottom-right" -> <<6144, 7424, 7936, 7936>>]

\* String(boolean)
BoolString(b) == IF b THEN "true" ELSE "false"

\* the four Rect parameters of a widget, when the position is a preset
RectParams(widget, pos) ==
    IF pos \in DOMAIN positionPresets
    THEN [i \in 1..4 |-> <<widget \o ".Rect[" \o NatToString(i - 1) \o "]",
                           NatToString(positionPresets[pos][i])>>]
    ELSE <<>>

\* Math.round((opacity / 100) * 255)
AlphaOf(opacity) == (opacity * 255 * 2 + 100) \div 200

RgbOf(color) == IF color = "white" THEN 255 ELSE 0

\* the four BackColor parameters of a widget: colour three times, then alpha
BackColorParams(widget, opacity, color) ==
    [i \in 1..4 |-> <<widget \o ".BackColor[" \o NatToString(i - 1) \o "]",
                      NatToString(IF i = 4 THEN AlphaOf(opacity) ELSE RgbOf(color))>>]

FrontColorParams(widget, color) ==
    [i \in 1..3 |-> <<widget \o ".FrontColor[" \o NatToString(i - 1) \o "]",
                      NatToString(RgbOf(color))>>]

When(cond, entries) == IF cond THEN entries ELSE <<>>

\* a save that sends every setting, changed or not
saveParamsOfEverything(cur, orig) ==
    << <<"ChannelTitle[0].Name", cur.cameraName>>,
       <<"VideoWidget[0].ChannelTitle.EncodeBlend", BoolString(cur.showOverlay)>>,
       <<"VideoWidget[0].TimeTitle.EncodeBlend", BoolString(cur.showTimestamp)>> >>
    \o RectParams("VideoWidget[0].ChannelTitle", cur.position)
    \o BackColorParams("VideoWidget[0].ChannelTitle", cur.overlayOpacity, cur.overlayBgColor)
    \o FrontColorParams("VideoWidget[0].ChannelTitle", cur.overlayTextColor)
    \o RectParams("VideoWidget[0].TimeTitle", cur.timestampPosition)
    \o BackColorParams("VideoWidget[0].TimeTitle", cur.timestampOpacity,
                       cur.timestampBgColor)
    \o FrontColorParams("VideoWidget[0].TimeTitle", cur.timestampTextColor)
    \o << <<"VideoWidget[0].PictureTitle.EncodeBlend", BoolString(cur.showLogo)>> >>
    \o RectParams("VideoWidget[0].PictureTitle", cur.logoPosition)

\* the params saveCameraName builds from the current and the original values,
\* in the order it adds them
saveParams(cur, orig) ==
    When(cur.cameraName # orig.cameraName,
         << <<"ChannelTitle[0].Name", cur.cameraName>> >>)
    \o When(cur.showOverlay # orig.showOverlay,
            << <<"VideoWidget[0].ChannelTitle.EncodeBlend", BoolString(cur.showOverlay)>> >>)
    \o When(cur.showTimestamp # orig.showTimestamp,
            << <<"VideoWidget[0].TimeTitle.EncodeBlend", BoolString(cur.showTimestamp)>> >>)
    \o When(cur.position # orig.position,
            RectParams("VideoWidget[0].ChannelTitle", cur.position))
    \o When(cur.overlayOpacity # orig.overlayOpacity
                \/ cur.overlayBgColor # orig.overlayBgColor,
            BackColorParams("VideoWidget[0].ChannelTitle", cur.overlayOpacity,
                            cur.overlayBgColor))
    \o When(cur.overlayTextColor # orig.overlayTextColor,
            FrontColorParams("VideoWidget[0].ChannelTitle", cur.overlayTextColor))
    \o When(cur.timestampPosition # orig.timestampPosition,
            RectParams("VideoWidget[0].TimeTitle", cur.timestampPosition))
    \o When(cur.timestampOpacity # orig.timestampOpacity
                \/ cur.timestampBgColor # orig.timestampBgColor,
            BackColorParams("VideoWidget[0].TimeTitle", cur.timestampOpacity,
                            cur.timestampBgColor))
    \o When(cur.timestampTextColor # orig.timestampTextColor,
            FrontColorParams("VideoWidget[0].TimeTitle", cur.timestampTextColor))
    \o When(cur.showLogo # orig.showLogo,
            << <<"VideoWidget[0].PictureTitle.EncodeBlend", BoolString(cur.showLogo)>> >>)
    \o When(cur.logoPosition # orig.logoPosition,
            RectParams("VideoWidget[0].PictureTitle", cur.logoPosition))

hasChanges(ov) == \E f \in DOMAIN ov.current : ov.current[f] # ov.original[f]

\* the most message timeouts pending at once
MaxTimeouts == 1

\* saveCameraName up to its await; useCamera's setConfig throws `Not
\* connected` with no client, which lands in the catch block
saveCameraName(ov) ==
    IF ~isConnected \/ ~hasChanges(ov) THEN ov
    ELSE LET params == saveParams(ov.current, ov.original)
         IN  IF params = <<>>
             THEN [ov EXCEPT !.isSaving = FALSE, !.message = ""]
             ELSE IF ~page.client
                  THEN [ov EXCEPT !.isSaving = FALSE, !.message = "Not connected",
                                  !.save = [NoSave EXCEPT !.returned = "raised"]]
             ELSE [ov EXCEPT !.isSaving = TRUE, !.message = "",
                             !.save = [NoSave EXCEPT !.pc = "sent", !.params = params]]

\* saveCameraName after its await, setConfig having resolved to success
saveCameraNameSettled(ov, success) ==
    IF Truthy(success)
    THEN [ov EXCEPT !.original = ov.current,
                    !.message = "Overlay settings updated successfully",
                    !.timeouts = @ + 1,
                    !.isSaving = FALSE,
                    !.save = [NoSave EXCEPT !.returned = "true"]]
    ELSE [ov EXCEPT !.message = "Failed to save configuration",
                    !.isSaving = FALSE,
                    !.save = [NoSave EXCEPT !.returned = "false"]]

\* the inputs the user changes here, with the values they choose between
EditedValues ==
    [cameraName |-> {"", "Door"}, showOverlay |-> BOOLEAN, overlayOpacity |-> {50, 80},
     overlayBgColor |-> {"black", "white"}, logoPosition |-> {"bottom-right", "top-left"}]

\* an input is disabled while saving, and the inputs of the camera name
\* overlay while it is hidden
Enabled(ov, field) ==
    /\ ~ov.isSaving
    /\ field \in {"overlayOpacity", "overlayBgColor"} => ov.current.showOverlay

Edit(field, value) ==
    /\ Enabled(overlay, field)
    /\ overlay.current[field] # value
    /\ overlay' = [overlay EXCEPT !.current[field] = value]
    /\ UNCHANGED <<text, parsed, realm, settings, camera, clients, calls, storage, page,
                   preview, ptz>>

\* the Save button
ClickSave ==
    /\ hasChanges(overlay) /\ ~overlay.isSaving
    /\ overlay.timeouts < MaxTimeouts
    /\ overlay' = saveCameraName(overlay)
    /\ UNCHANGED <<text, parsed, realm, settings, camera, clients, calls, storage, page,
                   preview, ptz>>

\* the Reset button: resetCameraName
ClickReset ==
    /\ hasChanges(overlay) /\ ~overlay.isSaving
    /\ overlay' = [overlay EXCEPT !.current = overlay.original, !.message = ""]
    /\ UNCHANGED <<text, parsed, realm, settings, camera, clients, calls, storage, page,
                   preview, ptz>>

\* the request of the save settles
SaveSettles(resp) ==
    /\ overlay.save.pc = "sent"
    /\ overlay' = saveCameraNameSettled(overlay, setConfig(resp).value)
    /\ UNCHANGED <<text, parsed, realm, settings, camera, clients, calls, storage, page,
                   preview, ptz>>

\* three seconds after a success the message is taken down
MessageTimeout ==
    /\ overlay.timeouts > 0
    /\ overlay' = [overlay EXCEPT !.message = "", !.timeouts = @ - 1]
    /\ UNCHANGED <<text, parsed, realm, settings, camera, clients, calls, storage, page,
                   preview, ptz>>

SaveReplies ==
    {TransportFailure, HttpResponse(200, "text/plain", "OK"),
     HttpResponse(200, "text/plain", "Error")}

\* the component in a connected session, or in one a disconnect has left
\* connected without a client
InitOverlay ==
    /\ text = ""
    /\ parsed = NotParsed
    /\ realm = PristineRealm
    /\ settings = PlainSettings
    /\ camera = CameraFor(settings, FALSE, "admin", "pw", SaveReplies)
    /\ clients = Construct(settings)
    /\ calls = [i \in CallIds |-> Idle]
    /\ storage = NoStorage
    /\ page \in {ConnectedPage, [ConnectedPage EXCEPT !.client = FALSE]}
    /\ preview = NoPreview
    /\ ptz = NoPtz
    /\ overlay = NoOverlay

NextOverlay ==
    \/ \E field \in DOMAIN EditedValues : \E value \in EditedValues[field] :
          Edit(field, value)
    \/ ClickSave
    \/ ClickReset
    \/ \E resp \in SaveReplies : SaveSettles(resp)
    \/ MessageTimeout

SpecOverlay == InitOverlay /\ [][NextOverlay]_vars

\* the ref a parameter is computed from: the alpha of a BackColor from the
\* opacity, its three colour components from the background colour
RefOfWidget(key, name, position, opacity, bgColor, textColor) ==
    CASE endsWith(key, ".EncodeBlend") -> name
      [] includes(key, ".Rect[") -> position
      [] endsWith(key, ".BackColor[3]") -> opacity
      [] includes(key, ".BackColor[") -> bgColor
      [] OTHER -> textColor

RefOf(key) ==
    CASE key = "ChannelTitle[0].Name" -> "cameraName"
      [] includes(key, ".ChannelTitle.") ->
            RefOfWidget(key, "showOverlay", "position", "overlayOpacity",
                        "overlayBgColor", "overlayTextColor")
      [] includes(key, ".TimeTitle.") ->
            RefOfWidget(key, "showTimestamp", "timestampPosition", "timestampOpacity",
                        "timestampBgColor", "timestampTextColor")
      [] OTHER -> RefOfWidget(key, "showLogo", "logoPosition", "", "", "")

Changed(field) == overlay.current[field] # overlay.original[field]

\* the refs that go out together with a ref: background colour and opacity
\* are the one BackColor of their widget
SentWith(field) ==
    CASE field \in {"overlayOpacity", "overlayBgColor"} ->
            {"overlayOpacity", "overlayBgColor"}
      [] field \in {"timestampOpacity", "timestampBgColor"} ->
            {"timestampOpacity", "timestampBgColor"}
      [] OTHER -> {field}

SentKeys == {overlay.save.params[i][1] : i \in DOMAIN overlay.save.params}

\* the save in flight settles in this step, with the given result
Settles(returned) ==
    /\ overlay.save.pc = "sent"
    /\ overlay'.save.returned = returned

\* a save ends in the catch block before any request has gone out
Raises == overlay.save.returned # "raised" /\ overlay'.save.returned = "raised"

\* what a save leaves behind: on success the originals are the current
\* values; on failure, or when setConfig raises, the originals stay and an
\* error message is set; isSaving is false once no save is in flight
SaveSettlesCleanly ==
    /\ [][/\ Settles("true") => /\ overlay'.original = overlay.current
                                /\ ~hasChanges(overlay')
          /\ Settles("false") => /\ overlay'.original = overlay.original
                                 /\ overlay'.message = "Failed to save configuration"
          /\ Raises => /\ overlay'.original = overlay.original
                       /\ overlay'.message = "Not connected"]_vars
    /\ [](overlay.save.pc = "idle" => ~overlay.isSaving)

\* C30: a save sends only the fields whose current value differs from its
\* original value; on success every original becomes the current value, so
\* hasChanges() is false; on failure or a raise no original changes and an
\* error message is set; isSaving is false again once the save has settled.
SaveSendsOnlyChangedFields ==
    /\ [](\A key \in SentKeys : Changed(RefOf(key)))
    /\ SaveSettlesCleanly

\* C30 as the code has it: a save sends only parameters of settings that
\* differ from their originals, background colour and opacity of a widget
\* going out together as its BackColor when either differs; the rest as
\* claimed.
SaveSendsOnlyChangedSettings ==
    /\ [](\A key \in SentKeys : \E field \in SentWith(RefOf(key)) : Changed(field))
    /\ SaveSettlesCleanly

\* a save of a new name and a new opacity has succeeded after one that failed
SavedAfterFailure ==
    /\ overlay.save.returned = "true"
    /\ overlay.original.cameraName = "Door"
    /\ overlay.original.overlayOpacity = 80
    /\ ~hasChanges(overlay)
    /\ overlay.message = "Overlay settings updated successfully"

====
